---- MODULE Spec2Model ----
(***************************************************************************)
(* Federal Register miners.                                                *)
(*                                                                         *)
(* parallel_register_miner.py: the backlog store (parse / merge / render), *)
(* the command line (parse_index_ranges), the worker process_range with    *)
(* its lock-protected seen-URL set, and the orchestrator main.             *)
(*                                                                         *)
(* rate_limited_register_miner.py: parse_range, request_with_backoff,      *)
(* process_page_range, merge_temp_files and main; its whole state is the   *)
(* record rl.                                                              *)
(*                                                                         *)
(* Both miners run their tasks on the threads of a pool; every task has    *)
(* the thread that took it and the monitor _get_thread_monitor gave it.    *)
(*                                                                         *)
(* Text is modelled as a sequence of lines, a line as a sequence of words  *)
(* (the maximal runs of non-blank characters of the line), a word as a     *)
(* string.  A string of the command line is the sequence of its            *)
(* characters.  A datetime is the number of its day; its renderings are    *)
(* the strings strftime produces for that day.  A delay is a number of     *)
(* sixteenths of a second.                                                 *)
(***************************************************************************)
EXTENDS Integers, Sequences, FiniteSets, TLC

\* ------------------------------------------------------------------ bounds
MaxDay == 2
MaxExisting == 3
MaxNew == 2
MaxRuns == 2
MaxFaults == 1
MaxBlocks == 3
MaxSegments == 3

\* -------------------------------------------------------- program constants
PAGE_SIZE_CAP == 1000

DEFAULT_TAG == <<"[FEDERAL", "REGISTER", "INDEX]">>

SEPARATOR_LINE ==
    <<"--------------------------------------------------------------------------------">>

HeaderRule ==
    <<"================================================================================">>

DefaultSource == <<"Federal", "Register">>

NoSummaryText ==
    <<"Federal", "Register", "notice", "with", "no", "supplied", "summary.">>

\* ------------------------------------------------------------ sequence help
Days == 1..MaxDay

NoDate == 0

Last(s) == s[Len(s)]

SeqsUpTo(S, n) == UNION {[1..k -> S] : k \in 0..n}

\* ------------------------------------------------------- timestamp strings
\* strftime("%Y-%m-%d") of day d
DateWord(d) == "2026-02-0" \o ToString(d)

\* strftime("%Y-%m-%d %H:%M:%SZ"): two words
DisplayTimestamp(d) == <<DateWord(d), "00:00:00Z">>

\* strftime("%Y-%m-%dT%H:%M:%SZ"): one word
IsoTimestamp(d) == DateWord(d) \o "T00:00:00Z"

\* datetime.strptime(timestamp, "%Y-%m-%d %H:%M:%SZ"); NoDate for ValueError
Strptime(words) ==
    IF /\ Len(words) = 2
       /\ words[2] = "00:00:00Z"
       /\ \E d \in Days : DateWord(d) = words[1]
    THEN CHOOSE d \in Days : DateWord(d) = words[1]
    ELSE NoDate

\* datetime.fromisoformat(iso.replace("Z", "+00:00")); NoDate for ValueError
FromIsoFormat(word) ==
    IF \E d \in Days : IsoTimestamp(d) = word
    THEN CHOOSE d \in Days : IsoTimestamp(d) = word
    ELSE NoDate

\* ------------------------------------------------------------ _parse_tag_line
NoTagLine == [ok |-> FALSE, tag |-> <<>>, timestamp |-> <<>>, title |-> <<>>]

HasBar(line) == \E i \in 1..Len(line) : line[i] = "|"

FirstBar(line) == CHOOSE i \in 1..Len(line) :
                     /\ line[i] = "|"
                     /\ \A j \in 1..(i - 1) : line[j] # "|"

_parse_tag_line(line) ==
    IF ~HasBar(line) THEN NoTagLine
    ELSE LET b == FirstBar(line)
             lhs == SubSeq(line, 1, b - 1)
             title == SubSeq(line, b + 1, Len(line))
         IN  \* lhs.strip().split(" ", 1) has two parts iff lhs has two words
             IF Len(lhs) < 2 THEN NoTagLine
             ELSE [ok |-> TRUE,
                   tag |-> <<lhs[1]>>,
                   timestamp |-> Tail(lhs),
                   title |-> title]

\* ------------------------------------------------------------- sorted order
\* list.sort(key=datetime, reverse=True): descending and stable
\* variant: an entry goes before the entries of its own timestamp
RECURSIVE InsertBeforeEqual(_, _)
InsertBeforeEqual(sorted, e) ==
    IF sorted = <<>> THEN <<e>>
    ELSE IF Head(sorted).datetime > e.datetime
         THEN <<Head(sorted)>> \o InsertBeforeEqual(Tail(sorted), e)
         ELSE <<e>> \o sorted

\* variant: reverse=True left out
RECURSIVE InsertAsc(_, _)
InsertAsc(sorted, e) ==
    IF sorted = <<>> THEN <<e>>
    ELSE IF Head(sorted).datetime <= e.datetime
         THEN <<Head(sorted)>> \o InsertAsc(Tail(sorted), e)
         ELSE <<e>> \o sorted

RECURSIVE InsertDesc(_, _)
InsertDesc(sorted, e) ==
    IF sorted = <<>> THEN <<e>>
    ELSE IF Head(sorted).datetime >= e.datetime
         THEN <<Head(sorted)>> \o InsertDesc(Tail(sorted), e)
         ELSE <<e>> \o sorted

RECURSIVE SortNewestFirst(_)
SortNewestFirst(entries) ==
    IF entries = <<>> THEN <<>>
    ELSE InsertDesc(SortNewestFirst(SubSeq(entries, 1, Len(entries) - 1)),
                    Last(entries))

\* ------------------------------------------------------------ merge_entries
HasUrl(combined, url) == \E i \in 1..Len(combined) : combined[i].url = url

\* combined[url] = entry on a dict: a present key keeps its place and takes
\* the new value, an absent key is appended
DictSet(combined, entry) ==
    IF HasUrl(combined, entry.url)
    THEN [i \in 1..Len(combined) |->
             IF combined[i].url = entry.url THEN entry ELSE combined[i]]
    ELSE Append(combined, entry)

RECURSIVE PutExisting(_, _)
PutExisting(combined, existing) ==
    IF existing = <<>> THEN combined
    ELSE PutExisting(IF Head(existing).url # ""
                     THEN DictSet(combined, Head(existing))
                     ELSE combined,
                     Tail(existing))

\* variant: the test for an empty URL left out
KeepsNewAnyUrl(combined, entry) == ~HasUrl(combined, entry.url)

\* a new entry is taken only when its URL is non-empty and not yet a key
KeepsNew(combined, entry) == entry.url # "" /\ ~HasUrl(combined, entry.url)

\* variant: the test "url in combined" left out, the new entry takes the key
RECURSIVE PutNewOverwriting(_, _)
PutNewOverwriting(combined, new_entries) ==
    IF new_entries = <<>> THEN combined
    ELSE PutNewOverwriting(IF Head(new_entries).url # ""
                           THEN DictSet(combined, Head(new_entries))
                           ELSE combined,
                           Tail(new_entries))

RECURSIVE PutNew(_, _)
PutNew(combined, new_entries) ==
    IF new_entries = <<>> THEN combined
    ELSE PutNew(IF KeepsNew(combined, Head(new_entries))
                THEN Append(combined, Head(new_entries))
                ELSE combined,
                Tail(new_entries))

merge_entries(existing, new_entries) ==
    SortNewestFirst(PutNew(PutExisting(<<>>, existing), new_entries))

\* ----------------------------------------------------------- format_backlog
CountLine(n) ==
    <<"Federal", "Register", "Historical", "Backlog", "(" \o ToString(n), "items)">>

EmptyBacklogText ==
    << HeaderRule, CountLine(0), HeaderRule, <<>>,
       <<"No", "Federal", "Register", "index", "range", "results", "were", "available.">> >>

EntryLines(entry, tag) ==
    LET display_ts == IF entry.display_timestamp # <<>>
                      THEN entry.display_timestamp
                      ELSE DisplayTimestamp(entry.datetime)
    IN  << entry.tag \o display_ts \o <<"|">> \o entry.title,
           <<"Source:">> \o entry.source >>
        \o (IF entry.batch_marker # <<>>
            THEN << <<"Batch", "File:">> \o entry.batch_marker >>
            ELSE <<>>)
        \o << <<"URL:">> \o (IF entry.url = "" THEN <<>> ELSE <<entry.url>>) >>
        \o entry.summary

RECURSIVE BodyLines(_, _)
BodyLines(payload, tag) ==
    IF payload = <<>> THEN <<>>
    ELSE EntryLines(Head(payload), tag) \o <<SEPARATOR_LINE>>
         \o BodyLines(Tail(payload), tag)

format_backlog(items, tag) ==
    IF items = <<>> THEN EmptyBacklogText
    ELSE LET payload == SortNewestFirst(items)
             body_lines == BodyLines(payload, tag)
         IN  << HeaderRule, CountLine(Len(payload)), HeaderRule, <<>> >>
             \o SubSeq(body_lines, 1, Len(body_lines) - 1)

\* ---------------------------------------------------- load_existing_entries
\* raw_text.split(SEPARATOR_LINE): the blocks between divider lines
RECURSIVE SplitBlocks(_, _)
SplitBlocks(text, current) ==
    IF text = <<>> THEN <<current>>
    ELSE IF Head(text) = SEPARATOR_LINE
         THEN <<current>> \o SplitBlocks(Tail(text), <<>>)
         ELSE SplitBlocks(Tail(text), Append(current, Head(text)))

\* the stripped, non-blank lines of a block
NonBlank(block) == SelectSeq(block, LAMBDA line : line # <<>>)

RECURSIVE JoinWords(_)
JoinWords(words) ==
    IF words = <<>> THEN ""
    ELSE IF Len(words) = 1 THEN words[1]
         ELSE words[1] \o " " \o JoinWords(Tail(words))

IsSourceLine(line) == Len(line) >= 2 /\ line[1] = "Source:"

IsBatchLine(line) == Len(line) >= 3 /\ line[1] = "Batch" /\ line[2] = "File:"

IsUrlLine(line) == Len(line) >= 2 /\ line[1] = "URL:"

\* the loop over lines[1:] of a block, up to its URL line
RECURSIVE ScanFields(_, _, _)
ScanFields(lines, idx, acc) ==
    IF idx > Len(lines) THEN acc
    ELSE LET line == lines[idx]
         IN  IF IsSourceLine(line)
             THEN ScanFields(lines, idx + 1, [acc EXCEPT !.source = Tail(line)])
             ELSE IF IsBatchLine(line)
             THEN ScanFields(lines, idx + 1,
                             [acc EXCEPT !.batch_marker = SubSeq(line, 3, Len(line))])
             ELSE IF IsUrlLine(line)
             THEN [acc EXCEPT !.url = JoinWords(Tail(line)),
                              !.summary = SubSeq(lines, idx + 1, Len(lines))]
             ELSE ScanFields(lines, idx + 1, acc)

NoFields == [source |-> DefaultSource, batch_marker |-> <<>>, url |-> "",
             summary |-> <<>>]

\* one block of the file: the entry it holds, if any, and the tag it shows
\* variant: a block is taken without the test for its URL
ParseBlockAnyUrl(block) ==
    LET lines == NonBlank(block)
        tag_line == IF lines = <<>> THEN NoTagLine ELSE _parse_tag_line(lines[1])
        dt == Strptime(tag_line.timestamp)
        f == ScanFields(lines, 2, NoFields)
    IN  [has_tag |-> tag_line.ok,
         tag |-> tag_line.tag,
         ok |-> tag_line.ok /\ dt # NoDate,
         entry |-> [title |-> tag_line.title,
                    source |-> f.source,
                    url |-> f.url,
                    summary |-> f.summary,
                    datetime |-> dt,
                    display_timestamp |-> tag_line.timestamp,
                    batch_marker |-> f.batch_marker,
                    tag |-> tag_line.tag]]

ParseBlock(block) ==
    LET lines == NonBlank(block)
        tag_line == IF lines = <<>> THEN NoTagLine ELSE _parse_tag_line(lines[1])
        dt == Strptime(tag_line.timestamp)
        f == ScanFields(lines, 2, NoFields)
    IN  [has_tag |-> tag_line.ok,
         tag |-> tag_line.tag,
         ok |-> tag_line.ok /\ dt # NoDate /\ f.url # "",
         entry |-> [title |-> tag_line.title,
                    source |-> f.source,
                    url |-> f.url,
                    summary |-> f.summary,
                    datetime |-> dt,
                    display_timestamp |-> tag_line.timestamp,
                    batch_marker |-> f.batch_marker,
                    tag |-> tag_line.tag]]

RECURSIVE LoadBlocks(_, _)
LoadBlocks(blocks, acc) ==
    IF blocks = <<>> THEN acc
    ELSE LET b == ParseBlock(Head(blocks))
         IN  LoadBlocks(Tail(blocks),
                 [entries |-> IF b.ok THEN Append(acc.entries, b.entry)
                              ELSE acc.entries,
                  urls |-> IF b.ok THEN acc.urls \cup {b.entry.url} ELSE acc.urls,
                  tag_default |-> IF b.has_tag THEN b.tag ELSE acc.tag_default])

NothingLoaded == [entries |-> <<>>, urls |-> {}, tag_default |-> DEFAULT_TAG]

\* file: [exists, text]
load_existing_entries(file) ==
    IF ~file.exists THEN NothingLoaded
    ELSE LoadBlocks(SplitBlocks(file.text, <<>>), NothingLoaded)

\* ======================================================== command-line text
\* a string of the command line is the sequence of its characters
DigitChars == <<"0", "1", "2", "3", "4", "5", "6", "7", "8", "9">>

IsDigit(c) == \E k \in 1..Len(DigitChars) : DigitChars[k] = c

DigitValue(c) == (CHOOSE k \in 1..Len(DigitChars) : DigitChars[k] = c) - 1

Contains(s, c) == \E k \in 1..Len(s) : s[k] = c

RECURSIVE LStrip(_)
LStrip(s) == IF s # <<>> /\ Head(s) = " " THEN LStrip(Tail(s)) ELSE s

RECURSIVE RStrip(_)
RStrip(s) ==
    IF s # <<>> /\ Last(s) = " " THEN RStrip(SubSeq(s, 1, Len(s) - 1)) ELSE s

\* str.strip()
StrStrip(s) == RStrip(LStrip(s))

\* str.split(sep): every piece, `piece` is the piece being read
RECURSIVE StrSplit(_, _, _)
StrSplit(s, sep, piece) ==
    IF s = <<>> THEN <<piece>>
    ELSE IF Head(s) = sep THEN <<piece>> \o StrSplit(Tail(s), sep, <<>>)
    ELSE StrSplit(Tail(s), sep, Append(piece, Head(s)))

\* str.split(sep, 1) of a string that contains sep
SplitOnce(s, sep) ==
    LET at == CHOOSE k \in 1..Len(s) :
                 s[k] = sep /\ \A j \in 1..(k - 1) : s[j] # sep
    IN  <<SubSeq(s, 1, at - 1), SubSeq(s, at + 1, Len(s))>>

AllDigits(s) == s # <<>> /\ \A k \in 1..Len(s) : IsDigit(s[k])

RECURSIVE DigitsValue(_, _)
DigitsValue(s, acc) ==
    IF s = <<>> THEN acc ELSE DigitsValue(Tail(s), 10 * acc + DigitValue(Head(s)))

NoInt == [ok |-> FALSE, value |-> 0]

\* int(text): blanks around the number and a sign are accepted; ok is FALSE
\* where int raises ValueError
IntOf(text) ==
    LET s == StrStrip(text)
    IN  IF AllDigits(s) THEN [ok |-> TRUE, value |-> DigitsValue(s, 0)]
        ELSE IF s # <<>> /\ Head(s) = "-" /\ AllDigits(Tail(s))
        THEN [ok |-> TRUE, value |-> 0 - DigitsValue(Tail(s), 0)]
        ELSE IF s # <<>> /\ Head(s) = "+" /\ AllDigits(Tail(s))
        THEN [ok |-> TRUE, value |-> DigitsValue(Tail(s), 0)]
        ELSE NoInt

\* -------------------------------------------------------- parse_index_ranges
NoRange == [ok |-> FALSE, range |-> <<>>]

\* one token of the list: ok is FALSE where ValueError is raised
ParseToken(token) ==
    IF Contains(token, "-")
    THEN LET parts == SplitOnce(token, "-")
             start_val == IntOf(parts[1])
             end_val == IntOf(parts[2])
         IN  IF start_val.ok /\ end_val.ok /\ start_val.value <= end_val.value
             THEN [ok |-> TRUE, range |-> <<start_val.value, end_val.value>>]
             ELSE NoRange
    ELSE LET val == IntOf(token)
         IN  IF val.ok THEN [ok |-> TRUE, range |-> <<val.value, val.value>>]
             ELSE NoRange

RECURSIVE ParseTokens(_, _)
ParseTokens(parts, parsed) ==
    IF parts = <<>> THEN [ok |-> parsed # <<>>, ranges |-> parsed]
    ELSE LET token == StrStrip(Head(parts))
         IN  IF token = <<>> THEN ParseTokens(Tail(parts), parsed)
             ELSE IF ~ParseToken(token).ok THEN [ok |-> FALSE, ranges |-> <<>>]
             ELSE ParseTokens(Tail(parts), Append(parsed, ParseToken(token).range))

\* ok is FALSE where parse_index_ranges raises ValueError
parse_index_ranges(ranges) == ParseTokens(StrSplit(ranges, ",", <<>>), <<>>)

\* ===================================================================== state
VARIABLES
    remote,            \* the documents of the remote API, newest first
    file,              \* the backlog file: [exists, text]
    mainpc,            \* where main is: "idle", "await"
    args,              \* the command line of the run: index_ranges, batch_size, num_threads
    existing_entries,  \* main: entries loaded from the backlog file
    existing_tag,      \* main: tag returned by load_existing_entries
    seen_urls,         \* the shared set of seen URLs
    lock,              \* the task holding the lock, 0 when free
    task,              \* one record per submitted range: the locals of process_range
    temp_files,        \* the files of the temporary directory, by path
    temp_paths,        \* main: the paths collected from completed futures
    runs,              \* number of runs started
    hist,              \* what happened in the current run, and the file it started from
    fx,                \* inputs and results of the backlog store functions applied alone
    rl,                \* the run of rate_limited_register_miner.py
    thread_local       \* _THREAD_LOCAL: the monitor of each pool thread, monitors made

vars == <<remote, file, mainpc, args, existing_entries, existing_tag, seen_urls,
          lock, task, temp_files, temp_paths, runs, hist, fx, rl, thread_local>>

progvars == <<remote, file, mainpc, args, existing_entries, existing_tag, seen_urls,
              lock, task, temp_files, temp_paths, runs, hist, thread_local>>

\* everything but the run of rate_limited_register_miner.py
minervars == <<progvars, fx>>

\* ------------------------------------------------- the backlog store, alone
Entry(url, day, title, summary, marker, tag) ==
    [title |-> title, source |-> DefaultSource, url |-> url, summary |-> summary,
     datetime |-> day, display_timestamp |-> DisplayTimestamp(day),
     batch_marker |-> marker, tag |-> tag]

\* entries as load_existing_entries returns them (the tag is one word)
ExistingPool ==
    { Entry("https://fr/u1", MaxDay, <<"Rule", "A">>, << <<"edited", "text">> >>,
            <<"indices", "0-1">>, <<"[FEDERAL">>),
      Entry("https://fr/u1", MaxDay, <<"Rule", "A2">>, << <<"older", "text">> >>,
            <<>>, <<"[FEDERAL">>),
      Entry("https://fr/u2", MaxDay, <<"Rule", "B">>, <<>>, <<>>, <<"[ARCHIVE]">>),
      Entry("https://fr/u2", 1, <<"Rule", "B">>, << <<"text">> >>, <<>>, <<"[FEDERAL">>) }

\* entries as load_thread_results returns them
NewPool ==
    { Entry("https://fr/u1", MaxDay, <<"Rule", "A">>, << <<"fresh", "text">> >>,
            <<"indices", "0-1">>, DEFAULT_TAG),
      Entry("https://fr/u3", MaxDay, <<"Rule", "C">>, << NoSummaryText >>,
            <<"indices", "0-1">>, DEFAULT_TAG),
      Entry("https://fr/u3", 1, <<"Rule", "C">>, << <<"text">> >>,
            <<"indices", "1-2">>, <<"[FEDERAL">>),
      Entry("", 1, <<"Rule", "D">>, << <<"text">> >>, <<"indices", "1-2">>,
            DEFAULT_TAG) }

FxIdle == [pc |-> "off", existing |-> <<>>, new_entries |-> <<>>, merged |-> <<>>,
           text |-> <<>>, parsed |-> NothingLoaded]

FxMerge ==
    /\ fx.pc = "input"
    /\ fx' = [fx EXCEPT !.pc = "merged",
                        !.merged = merge_entries(fx.existing, fx.new_entries)]
    /\ UNCHANGED <<progvars, rl>>

FxRender ==
    /\ fx.pc = "merged"
    /\ fx' = [fx EXCEPT !.pc = "rendered",
                        !.text = format_backlog(fx.merged, DEFAULT_TAG)]
    /\ UNCHANGED <<progvars, rl>>

FxLoad ==
    /\ fx.pc = "rendered"
    /\ fx' = [fx EXCEPT !.pc = "loaded",
                        !.parsed = load_existing_entries(
                                       [exists |-> TRUE, text |-> fx.text])]
    /\ UNCHANGED <<progvars, rl>>

\* ------------------------------------------------- backlog files to be loaded
\* a block of a backlog file, and the entry it stands for, if it is well-formed
WrittenBlock(entry) == [lines |-> EntryLines(entry, DEFAULT_TAG), entry |-> <<entry>>]

\* blocks as format_backlog writes them, with a tag of one word and with the
\* DEFAULT_TAG; a block whose first line has no "|"; a block with an ISO
\* timestamp; a block without a URL line
FileBlocks ==
    { WrittenBlock(Entry("https://fr/u1", MaxDay, <<"Rule", "A">>,
                         << <<"About", "A">> >>, <<"indices", "0-1">>, <<"[ARCHIVE]">>)),
      WrittenBlock(Entry("https://fr/u2", 1, <<"Rule", "B">>,
                         << <<"About", "B">> >>, <<>>, DEFAULT_TAG)),
      [lines |-> << <<"Rule", "C">>, <<"URL:", "https://fr/u3">> >>, entry |-> <<>>],
      [lines |-> << <<"[ARCHIVE]", IsoTimestamp(1), "|", "Rule", "D">>,
                    <<"Source:", "Federal", "Register">>,
                    <<"URL:", "https://fr/u4">> >>,
       entry |-> <<>>],
      [lines |-> << <<"[ARCHIVE]">> \o DisplayTimestamp(1) \o <<"|", "Rule", "E">>,
                    <<"Source:", "Federal", "Register">> >>,
       entry |-> <<>>] }

\* the blocks with the divider line between them
RECURSIVE JoinBlocks(_)
JoinBlocks(blocks) ==
    IF blocks = <<>> THEN <<>>
    ELSE IF Len(blocks) = 1 THEN blocks[1].lines
    ELSE blocks[1].lines \o <<SEPARATOR_LINE>> \o JoinBlocks(Tail(blocks))

\* the entries of the well-formed blocks, in the order of the blocks
RECURSIVE BlockEntries(_)
BlockEntries(blocks) ==
    IF blocks = <<>> THEN <<>>
    ELSE Head(blocks).entry \o BlockEntries(Tail(blocks))

\* a backlog file of these blocks, with the header lines of format_backlog or
\* without them
FileText(blocks, with_header) ==
    (IF with_header
     THEN << HeaderRule, CountLine(Len(BlockEntries(blocks))), HeaderRule, <<>> >>
     ELSE <<>>)
    \o JoinBlocks(blocks)

\* ------------------------------------------------------------ the remote API
Document(number, title, html_url, day, abstract) ==
    [document_number |-> number, title |-> title, html_url |-> html_url,
     publication_date |-> day, abstract |-> abstract]

Remote1 ==
    << Document("2026-001", <<"Rule", "A">>, "https://fr/u1", MaxDay, <<"About", "A">>),
       Document("2026-002", <<"Rule", "B">>, "https://fr/u2", MaxDay, <<>>),
       Document("2026-003", <<"Rule", "C">>, "https://fr/u3", 1, <<"About", "C">>) >>

RemoteChoices == {Remote1}

\* as Remote1, with a document the API returned without a title at index 1
Remote2 ==
    << Document("2026-001", <<"Rule", "A">>, "https://fr/u1", MaxDay, <<"About", "A">>),
       Document("2026-004", <<>>, "https://fr/u4", MaxDay, <<"About", "D">>),
       Document("2026-002", <<"Rule", "B">>, "https://fr/u2", MaxDay, <<>>),
       Document("2026-003", <<"Rule", "C">>, "https://fr/u3", 1, <<"About", "C">>) >>

\* a source whose only page is short and starts with a document the API
\* returned without a title
Remote4 ==
    << Document("2026-004", <<>>, "https://fr/u4", MaxDay, <<"About", "D">>),
       Document("2026-001", <<"Rule", "A">>, "https://fr/u1", MaxDay, <<"About", "A">>) >>

PagingRemotes == {Remote1, Remote2, Remote4}

\* as Remote1, with the title of the first document on the second as well
Remote3 ==
    << Document("2026-001", <<"Rule", "A">>, "https://fr/u1", MaxDay, <<"About", "A">>),
       Document("2026-002", <<"Rule", "A">>, "https://fr/u2", MaxDay, <<>>),
       Document("2026-003", <<"Rule", "C">>, "https://fr/u3", 1, <<"About", "C">>) >>

TitledRemotes == {Remote1, Remote3}

Min(a, b) == IF a <= b THEN a ELSE b

Max(a, b) == IF a >= b THEN a ELSE b

\* the "results" of page `page` with `per_page` documents a page
fetch_page(data, page, per_page) ==
    SubSeq(data, (page - 1) * per_page + 1, Min(page * per_page, Len(data)))

\* FederalRegisterMonitor.parse
ParseDocument(document) ==
    LET url == IF document.html_url # "" THEN document.html_url
               ELSE IF document.document_number # ""
                    THEN "https://www.federalregister.gov/documents/"
                         \o document.document_number
                    ELSE ""
        content == IF document.abstract # <<>> THEN document.abstract
                   ELSE <<"Federal", "Register", "document", "from", "an", "agency">>
    IN  IF document.title = <<>> \/ document.publication_date = NoDate
        THEN <<>>
        ELSE << [title |-> document.title, source |-> DefaultSource, url |-> url,
                 date |-> document.publication_date, content |-> content] >>

RECURSIVE MonitorParse(_)
MonitorParse(results) ==
    IF results = <<>> THEN <<>>
    ELSE ParseDocument(Head(results)) \o MonitorParse(Tail(results))

\* " ".join(text.split()), or the placeholder
sanitize_summary(content) == IF content = <<>> THEN NoSummaryText ELSE content

\* ------------------------------------------------------------- process_range
RangeLabel(index_range) ==
    <<"indices", ToString(index_range[1]) \o "-" \o ToString(index_range[2])>>

\* temp_dir / f"range_{start_offset}_{end_offset}.json"
TempPath(i, index_range) == <<"range", index_range[1], index_range[2]>>

PageSize == Max(1, Min(args.batch_size, PAGE_SIZE_CAP))

Tasks == DOMAIN task

Running == {i \in Tasks : task[i].pc \notin {"queued", "done", "failed"}}

\* main: index_ranges
IndexRanges == parse_index_ranges(args.index_ranges).ranges

\* variant: a pool with one thread for every range
MaxWorkersPerRange == Len(IndexRanges)

\* max_workers = min(args.num_threads, len(index_ranges))
MaxWorkers == Min(args.num_threads, Len(IndexRanges))

\* threading.local() of a process that has started no pool thread: the
\* monitor attribute of each thread (0: not set) and the monitors constructed
NoThreads == [slot |-> <<>>, made |-> 0]

\* the pool threads that can take a task from the queue of the executor: one
\* that is idle, or a new one while the pool has fewer than max_workers
FreeThreads(tl, busy, max_workers) ==
    {th \in 1..Len(tl.slot) : th \notin busy}
    \cup (IF Len(tl.slot) < max_workers THEN {Len(tl.slot) + 1} ELSE {})

\* the thread-local storage as thread th sees it when it begins a task
InThread(tl, th) ==
    IF th > Len(tl.slot) THEN [tl EXCEPT !.slot = Append(@, 0)] ELSE tl

\* variant: one monitor attribute for every thread
GetMonitorOfModule(tl, th) ==
    IF tl.slot[1] # 0
    THEN [monitor |-> tl.slot[1], thread_local |-> tl]
    ELSE [monitor |-> tl.made + 1,
          thread_local |-> [slot |-> [tl.slot EXCEPT ![1] = tl.made + 1],
                            made |-> tl.made + 1]]

\* _get_thread_monitor, called in thread th
_get_thread_monitor(tl, th) ==
    IF tl.slot[th] # 0
    THEN [monitor |-> tl.slot[th], thread_local |-> tl]
    ELSE [monitor |-> tl.made + 1,
          thread_local |-> [slot |-> [tl.slot EXCEPT ![th] = tl.made + 1],
                            made |-> tl.made + 1]]

NewTask(index_range) ==
    [range |-> index_range, pc |-> "queued", current_offset |-> index_range[1],
     parsed_items |-> <<>>, index |-> 0, stop |-> 0, new_entries |-> <<>>,
     requested |-> <<>>, collected |-> FALSE, thread |-> 0, monitor |-> 0]

\* the executor hands the next queued range to a free worker thread
TaskStart(i) ==
    /\ mainpc = "await"
    /\ task[i].pc = "queued"
    /\ \A j \in Tasks : j < i => task[j].pc # "queued"
    /\ Cardinality(Running) < MaxWorkers
    /\ \E th \in FreeThreads(thread_local, {task[j].thread : j \in Running},
                             MaxWorkers) :
          LET got == _get_thread_monitor(InThread(thread_local, th), th)
          IN  /\ task' = [task EXCEPT ![i].pc = "loop", ![i].thread = th,
                                      ![i].monitor = got.monitor]
              /\ thread_local' = got.thread_local
    /\ UNCHANGED <<remote, file, mainpc, args, existing_entries, existing_tag,
                   seen_urls, lock, temp_files, temp_paths, runs, hist, fx, rl>>

\* while current_offset <= end_offset: left when the range is exhausted
LoopExit(i) ==
    /\ task[i].pc = "loop"
    /\ task[i].current_offset > task[i].range[2]
    /\ task' = [task EXCEPT ![i].pc = "dump"]
    /\ UNCHANGED <<remote, file, mainpc, args, existing_entries, existing_tag,
                   seen_urls, lock, temp_files, temp_paths, runs, hist, fx, rl, thread_local>>

\* variant: after a failed fetch the same page is asked for again
FetchFailsSamePage(i) ==
    /\ task[i].pc = "loop"
    /\ task[i].current_offset <= task[i].range[2]
    /\ hist.faults < MaxFaults
    /\ LET page == task[i].current_offset \div PageSize + 1
       IN  task' = [task EXCEPT ![i].requested = Append(@, page)]
    /\ hist' = [hist EXCEPT !.faults = @ + 1]
    /\ UNCHANGED <<remote, file, mainpc, args, existing_entries, existing_tag,
                   seen_urls, lock, temp_files, temp_paths, runs, fx, rl, thread_local>>

\* variant: a failed fetch empties the batch of the worker
FetchFailsDropsBatch(i) ==
    /\ task[i].pc = "loop"
    /\ task[i].current_offset <= task[i].range[2]
    /\ hist.faults < MaxFaults
    /\ LET page == task[i].current_offset \div PageSize + 1
           page_start_offset == (page - 1) * PageSize
       IN  task' = [task EXCEPT ![i].current_offset = page_start_offset + PageSize,
                                ![i].requested = Append(@, page),
                                ![i].new_entries = <<>>]
    /\ hist' = [hist EXCEPT !.faults = @ + 1]
    /\ UNCHANGED <<remote, file, mainpc, args, existing_entries, existing_tag,
                   seen_urls, lock, temp_files, temp_paths, runs, fx, rl, thread_local>>

\* fetch_page raised: skip to the next page
FetchFails(i) ==
    /\ task[i].pc = "loop"
    /\ task[i].current_offset <= task[i].range[2]
    /\ hist.faults < MaxFaults
    /\ LET page == task[i].current_offset \div PageSize + 1
           page_start_offset == (page - 1) * PageSize
       IN  task' = [task EXCEPT ![i].current_offset = page_start_offset + PageSize,
                                ![i].requested = Append(@, page)]
    /\ hist' = [hist EXCEPT !.faults = @ + 1]
    /\ UNCHANGED <<remote, file, mainpc, args, existing_entries, existing_tag,
                   seen_urls, lock, temp_files, temp_paths, runs, fx, rl, thread_local>>

\* variant: the page is taken to start where it ends
FetchPageStartsAtPageEnd(i) ==
    /\ task[i].pc = "loop"
    /\ task[i].current_offset <= task[i].range[2]
    /\ LET t == task[i]
           page == t.current_offset \div PageSize + 1
           page_start_offset == page * PageSize
           results == fetch_page(remote, page, PageSize)
           parsed_items == MonitorParse(results)
           start_index == Max(0, t.current_offset - page_start_offset)
           remaining_offsets == t.range[2] - t.current_offset + 1
           available == Len(parsed_items) - start_index
           take_count == Min(available, remaining_offsets)
           fetched == [task EXCEPT ![i].requested = Append(@, page)]
       IN  task' =
             IF results = <<>> THEN [fetched EXCEPT ![i].pc = "dump"]
             ELSE IF start_index >= Len(parsed_items)
             THEN [fetched EXCEPT
                     ![i].current_offset = page_start_offset + Len(parsed_items),
                     ![i].pc = IF Len(parsed_items) < PageSize THEN "dump" ELSE "loop"]
             ELSE IF take_count <= 0 THEN [fetched EXCEPT ![i].pc = "dump"]
             ELSE [fetched EXCEPT ![i].parsed_items = parsed_items,
                                  ![i].index = start_index,
                                  ![i].stop = start_index + take_count,
                                  ![i].pc = "item"]
    /\ UNCHANGED <<remote, file, mainpc, args, existing_entries, existing_tag,
                   seen_urls, lock, temp_files, temp_paths, runs, hist, fx, rl, thread_local>>

\* one pass of the loop body down to the for loop over the items taken
FetchPage(i) ==
    /\ task[i].pc = "loop"
    /\ task[i].current_offset <= task[i].range[2]
    /\ LET t == task[i]
           page == t.current_offset \div PageSize + 1
           page_start_offset == (page - 1) * PageSize
           results == fetch_page(remote, page, PageSize)
           parsed_items == MonitorParse(results)
           start_index == Max(0, t.current_offset - page_start_offset)
           remaining_offsets == t.range[2] - t.current_offset + 1
           available == Len(parsed_items) - start_index
           take_count == Min(available, remaining_offsets)
           fetched == [task EXCEPT ![i].requested = Append(@, page)]
       IN  task' =
             IF results = <<>> THEN [fetched EXCEPT ![i].pc = "dump"]
             ELSE IF start_index >= Len(parsed_items)
             THEN [fetched EXCEPT
                     ![i].current_offset = page_start_offset + Len(parsed_items),
                     ![i].pc = IF Len(parsed_items) < PageSize THEN "dump" ELSE "loop"]
             ELSE IF take_count <= 0 THEN [fetched EXCEPT ![i].pc = "dump"]
             ELSE [fetched EXCEPT ![i].parsed_items = parsed_items,
                                  ![i].index = start_index,
                                  ![i].stop = start_index + take_count,
                                  ![i].pc = "item"]
    /\ UNCHANGED <<remote, file, mainpc, args, existing_entries, existing_tag,
                   seen_urls, lock, temp_files, temp_paths, runs, hist, fx, rl, thread_local>>

Item(i) == task[i].parsed_items[task[i].index + 1]

\* variant: the check and the insert done without holding the lock
CanAcquireAlways(i) == TRUE

\* lock.acquire() succeeds only on a free lock
CanAcquire(i) == lock = 0

\* with lock: enter
LockAcquire(i) ==
    /\ task[i].pc = "item"
    /\ task[i].index < task[i].stop
    /\ CanAcquire(i)
    /\ lock' = i
    /\ task' = [task EXCEPT ![i].pc = "check"]
    /\ hist' = [hist EXCEPT !.met = @ \cup {<<i, Item(i).url>>}]
    /\ UNCHANGED <<remote, file, mainpc, args, existing_entries, existing_tag,
                   seen_urls, temp_files, temp_paths, runs, fx, rl, thread_local>>

\* variant: the already-seen path goes on without releasing the lock
LockCheckKeepsLock(i) ==
    /\ task[i].pc = "check"
    /\ task' = IF Item(i).url \in seen_urls
               THEN [task EXCEPT ![i].pc = "item", ![i].index = @ + 1]
               ELSE [task EXCEPT ![i].pc = "insert"]
    /\ UNCHANGED <<remote, file, mainpc, args, existing_entries, existing_tag,
                   seen_urls, lock, temp_files, temp_paths, runs, hist, fx, rl, thread_local>>

\* if url in seen_urls: continue (leaving the with block releases the lock)
LockCheck(i) ==
    /\ task[i].pc = "check"
    /\ IF Item(i).url \in seen_urls
       THEN /\ task' = [task EXCEPT ![i].pc = "item", ![i].index = @ + 1]
            /\ lock' = 0
       ELSE /\ task' = [task EXCEPT ![i].pc = "insert"]
            /\ lock' = lock
    /\ UNCHANGED <<remote, file, mainpc, args, existing_entries, existing_tag,
                   seen_urls, temp_files, temp_paths, runs, hist, fx, rl, thread_local>>

\* seen_urls.add(url), then the with block ends
LockInsert(i) ==
    /\ task[i].pc = "insert"
    /\ seen_urls' = seen_urls \cup {Item(i).url}
    /\ lock' = 0
    /\ task' = [task EXCEPT ![i].pc = "append"]
    /\ UNCHANGED <<remote, file, mainpc, args, existing_entries, existing_tag,
                   temp_files, temp_paths, runs, hist, fx, rl, thread_local>>

NewRecord(item, index_range) ==
    [title |-> item.title, source |-> item.source, url |-> item.url,
     summary |-> << sanitize_summary(item.content) >>,
     iso_timestamp |-> IsoTimestamp(item.date),
     range_label |-> RangeLabel(index_range)]

\* new_entries.append({...})
AppendEntry(i) ==
    /\ task[i].pc = "append"
    /\ task' = [task EXCEPT
                  ![i].new_entries = Append(@, NewRecord(Item(i), task[i].range)),
                  ![i].index = @ + 1,
                  ![i].pc = "item"]
    /\ UNCHANGED <<remote, file, mainpc, args, existing_entries, existing_tag,
                   seen_urls, lock, temp_files, temp_paths, runs, hist, fx, rl, thread_local>>

\* after the for loop: advance, and stop on a short page
PageDone(i) ==
    /\ task[i].pc = "item"
    /\ task[i].index >= task[i].stop
    /\ LET t == task[i]
           page == t.current_offset \div PageSize + 1
           page_start_offset == (page - 1) * PageSize
           take_count == t.stop - Max(0, t.current_offset - page_start_offset)
       IN  task' = [task EXCEPT
                      ![i].current_offset = @ + take_count,
                      ![i].pc = IF Len(t.parsed_items) < PageSize THEN "dump"
                                ELSE "loop"]
    /\ UNCHANGED <<remote, file, mainpc, args, existing_entries, existing_tag,
                   seen_urls, lock, temp_files, temp_paths, runs, hist, fx, rl, thread_local>>

WriteTemp(files, path, payload) ==
    [p \in DOMAIN files \cup {path} |-> IF p = path THEN payload ELSE files[p]]

\* json.dump(new_entries) into the temporary file; the future has its result
DumpTemp(i) ==
    /\ task[i].pc = "dump"
    /\ temp_files' = WriteTemp(temp_files, TempPath(i, task[i].range),
                               task[i].new_entries)
    /\ task' = [task EXCEPT ![i].pc = "done"]
    /\ UNCHANGED <<remote, file, mainpc, args, existing_entries, existing_tag,
                   seen_urls, lock, temp_paths, runs, hist, fx, rl, thread_local>>

\* the temporary file cannot be written: OSError is raised out of the worker
DumpFails(i) ==
    /\ task[i].pc = "dump"
    /\ hist.faults < MaxFaults
    /\ task' = [task EXCEPT ![i].pc = "failed"]
    /\ hist' = [hist EXCEPT !.faults = @ + 1]
    /\ UNCHANGED <<remote, file, mainpc, args, existing_entries, existing_tag,
                   seen_urls, lock, temp_files, temp_paths, runs, fx, rl, thread_local>>

\* ------------------------------------------------------- load_thread_results
ThreadEntry(record, tag) ==
    LET dt == FromIsoFormat(record.iso_timestamp)
    IN  IF dt = NoDate THEN <<>>
        ELSE << [title |-> record.title, source |-> record.source,
                 url |-> record.url, summary |-> record.summary,
                 datetime |-> dt, display_timestamp |-> DisplayTimestamp(dt),
                 batch_marker |-> record.range_label, tag |-> tag] >>

RECURSIVE ThreadEntries(_, _)
ThreadEntries(payload, tag) ==
    IF payload = <<>> THEN <<>>
    ELSE ThreadEntry(Head(payload), tag) \o ThreadEntries(Tail(payload), tag)

RECURSIVE load_thread_results(_, _, _)
load_thread_results(files, paths, tag) ==
    IF paths = <<>> THEN <<>>
    ELSE (IF Head(paths) \in DOMAIN files
          THEN ThreadEntries(files[Head(paths)], tag)
          ELSE <<>>)
         \o load_thread_results(files, Tail(paths), tag)

\* ---------------------------------------------------------------------- main
NoTempFiles == [p \in {} |-> <<>>]

\* "0-1" and "1-2"
RangeChoices == {<<"0", "-", "1">>, <<"1", "-", "2">>}

\* --index-ranges: one range, or two ranges (equal, or overlapping in either
\* order) with a comma between them
RangeLists ==
    RangeChoices \cup {a \o <<",">> \o b : a \in RangeChoices, b \in RangeChoices}

ArgChoices ==
    [index_ranges : RangeLists,
     batch_size : {2},
     num_threads : {1, 2}]

NoArgs == [index_ranges |-> <<>>, batch_size |-> 1, num_threads |-> 1]

\* main: the checks that let the run go on
ConfigValid(a) ==
    /\ parse_index_ranges(a.index_ranges).ok
    /\ a.num_threads > 0
    /\ a.batch_size > 0

NoFile == [exists |-> FALSE, text |-> <<>>]

NewHist(old) ==
    [start_file |-> file, met |-> {}, batches |-> NoTempFiles, wrote |-> FALSE,
     faults |-> old.faults, prev_args |-> args, outcome |-> "running"]

\* main up to the submission of every range to the executor; with an invalid
\* configuration main logs the error and returns
StartRun(a) ==
    /\ mainpc = "idle"
    /\ runs < MaxRuns
    /\ args' = a
    /\ runs' = runs + 1
    /\ lock' = 0
    /\ temp_files' = NoTempFiles
    /\ temp_paths' = <<>>
    /\ thread_local' = NoThreads
    /\ IF ConfigValid(a)
       THEN LET loaded == load_existing_entries(file)
                index_ranges == parse_index_ranges(a.index_ranges).ranges
            IN  /\ existing_entries' = loaded.entries
                /\ existing_tag' = loaded.tag_default
                /\ seen_urls' = loaded.urls
                /\ task' = [i \in 1..Len(index_ranges) |-> NewTask(index_ranges[i])]
                /\ mainpc' = "await"
                /\ hist' = NewHist(hist)
       ELSE /\ existing_entries' = <<>>
            /\ existing_tag' = DEFAULT_TAG
            /\ seen_urls' = {}
            /\ task' = <<>>
            /\ mainpc' = "idle"
            /\ hist' = [NewHist(hist) EXCEPT !.outcome = "exit 0"]
    /\ UNCHANGED <<remote, file, fx, rl>>

\* for future in as_completed(futures): one finished future is taken
Collect(i) ==
    /\ mainpc = "await"
    /\ task[i].pc \in {"done", "failed"}
    /\ ~task[i].collected
    /\ task' = [task EXCEPT ![i].collected = TRUE]
    /\ temp_paths' = IF task[i].pc = "done"
                     THEN Append(temp_paths, TempPath(i, task[i].range))
                     ELSE temp_paths
    /\ UNCHANGED <<remote, file, mainpc, args, existing_entries, existing_tag,
                   seen_urls, lock, temp_files, runs, hist, fx, rl, thread_local>>

\* existing_tag or DEFAULT_TAG
RunTag == IF existing_tag = <<>> THEN DEFAULT_TAG ELSE existing_tag

NewEntries == load_thread_results(temp_files, temp_paths, RunTag)

MergedEntries == merge_entries(existing_entries, NewEntries)

\* variant: the loop over the futures is left at the first result
AnyCollected == \E i \in Tasks : task[i].collected

\* the loop over as_completed(futures) has ended
AllCollected == \A i \in Tasks : task[i].collected

\* main from load_thread_results to the end: the backlog is rewritten
MergeAndWrite ==
    /\ mainpc = "await"
    /\ AllCollected
    /\ file' = [exists |-> TRUE,
                text |-> format_backlog(MergedEntries, RunTag)]
    /\ temp_files' = NoTempFiles
    /\ mainpc' = "idle"
    /\ hist' = [hist EXCEPT !.batches = temp_files, !.wrote = TRUE,
                            !.outcome = "exit 0"]
    /\ UNCHANGED <<remote, args, existing_entries, existing_tag, seen_urls, lock,
                   task, temp_paths, runs, fx, rl, thread_local>>

\* output_file.write_text raises OSError: logged, the file is left as it was
WriteFails ==
    /\ mainpc = "await"
    /\ AllCollected
    /\ hist.faults < MaxFaults
    /\ hist' = [hist EXCEPT !.faults = @ + 1, !.batches = temp_files,
                            !.outcome = "exit 0"]
    /\ temp_files' = NoTempFiles
    /\ mainpc' = "idle"
    /\ UNCHANGED <<remote, file, args, existing_entries, existing_tag, seen_urls,
                   lock, task, temp_paths, runs, fx, rl, thread_local>>

\* ============================================ rate_limited_register_miner.py
\* delays and sleeps are counted in sixteenths of a second
TicksPerSecond == 16

\* random.uniform(0.75, 1.25): the ends and the middle, in quarters
JitterQuarters == {3, 4, 5}

\* the Retry-After header of a 429 response: none, "3", "1.5"
RetryAfterChoices == {<<>>, <<"3">>, <<"1", ".", "5">>}

\* variant: the delay is not doubled
BackoffWithoutDoubling(delay, jitter) ==
    Min(rl.args.max_delay, (delay * jitter) \div 4)

\* delay = min(max_delay, delay * 2 * jitter)
Backoff(delay, jitter) == Min(rl.args.max_delay, (delay * 2 * jitter) \div 4)

\* retry_after and retry_after.isdigit()
HasRetryAfter(header) == AllDigits(header)

\* variant: the server's value cut at max_delay
RetryAfterCapped(header) ==
    Min(rl.args.max_delay, DigitsValue(header, 0) * TicksPerSecond)

\* delay = float(retry_after)
RetryAfterDelay(header) == DigitsValue(header, 0) * TicksPerSecond

\* ---------------------------------------------------------------- parse_range
\* one part of the list: ok is FALSE where the part is skipped with a warning
ParsePart(part) ==
    IF ~Contains(part, "-") THEN NoRange
    ELSE LET pieces == StrSplit(part, "-", <<>>)
         IN  IF Len(pieces) # 2 THEN NoRange
             ELSE IF ~IntOf(pieces[1]).ok \/ ~IntOf(pieces[2]).ok THEN NoRange
             ELSE IF IntOf(pieces[1]).value > IntOf(pieces[2]).value THEN NoRange
             ELSE [ok |-> TRUE,
                   range |-> <<IntOf(pieces[1]).value, IntOf(pieces[2]).value>>]

\* variant: a range is put in front of the ranges of the parts after it
RECURSIVE ParsePartsLastFirst(_)
ParsePartsLastFirst(parts) ==
    IF parts = <<>> THEN <<>>
    ELSE ParsePartsLastFirst(Tail(parts))
         \o (IF ParsePart(Head(parts)).ok THEN <<ParsePart(Head(parts)).range>>
             ELSE <<>>)

RECURSIVE ParseParts(_)
ParseParts(parts) ==
    IF parts = <<>> THEN <<>>
    ELSE (IF ParsePart(Head(parts)).ok THEN <<ParsePart(Head(parts)).range>>
          ELSE <<>>)
         \o ParseParts(Tail(parts))

parse_range(range_str) == ParseParts(StrSplit(range_str, ",", <<>>))

\* ----------------------------------------------------------- merge_temp_files
\* a block of a temporary file, as merge_temp_files reads it: URL and title
RlBlock(item) == [url |-> item.url, title |-> item.title]

RECURSIVE RlBlocks(_)
RlBlocks(items) ==
    IF items = <<>> THEN <<>> ELSE <<RlBlock(Head(items))>> \o RlBlocks(Tail(items))

\* the blocks of the temporary files, in the order of temp_files
RECURSIVE RlAllBlocks(_)
RlAllBlocks(paths) ==
    IF paths = <<>> THEN <<>>
    ELSE RlBlocks(rl.task[Head(paths)].all_items) \o RlAllBlocks(Tail(paths))

RECURSIVE RlNewItems(_, _, _, _)
RlNewItems(blocks, existing_urls, existing_titles, new_items) ==
    IF blocks = <<>> THEN new_items
    ELSE LET block == Head(blocks)
         IN  IF /\ block.url # ""
                /\ block.url \notin existing_urls
                /\ block.title # <<>>
                /\ block.title \notin existing_titles
             THEN RlNewItems(Tail(blocks), existing_urls \cup {block.url},
                             existing_titles \cup {block.title},
                             Append(new_items, block))
             ELSE RlNewItems(Tail(blocks), existing_urls, existing_titles, new_items)

RlNoOutput == [exists |-> FALSE, count |-> 0, items |-> <<>>]

\* the output file after merge_temp_files: the header keeps the count it was
\* first written with, new blocks are put in after the header
\* (historical_register_miner.py has the same function, line for line)
merge_temp_files(paths, output_file, existing_titles) ==
    LET existing_urls == {output_file.items[k].url : k \in 1..Len(output_file.items)}
        new_items == RlNewItems(RlAllBlocks(paths), existing_urls, existing_titles, <<>>)
    IN  IF new_items = <<>> THEN output_file
        ELSE [exists |-> TRUE,
              count |-> IF output_file.exists THEN output_file.count
                        ELSE Len(new_items),
              items |-> new_items \o output_file.items]

\* ---------------------------------- request_with_backoff, process_page_range
RlNoArgs == [page_ranges |-> <<>>, per_page |-> 1, num_threads |-> 1,
             max_retries |-> 0, base_delay |-> 0, max_delay |-> 0]

RlNoRetry == [kind |-> "none", header |-> <<>>, jitter |-> 0, prev_delay |-> 0,
              slept |-> 0]

RlIdle == [mainpc |-> "idle", args |-> RlNoArgs, task |-> <<>>, temp_files |-> <<>>,
           output_file |-> RlNoOutput, outcome |-> "running",
           thread_local |-> NoThreads]

RlTasks == DOMAIN rl.task

RlRunning == {i \in RlTasks : rl.task[i].pc \in {"request", "write"}}

RlNewTask(page_range) ==
    [range |-> page_range, pc |-> "queued", current_page |-> page_range[1],
     retries |-> 0, delay |-> 0, attempts |-> 0, streak |-> 0, last |-> RlNoRetry,
     all_items |-> <<>>, fetched |-> <<>>, skipped |-> {}, retried |-> {},
     collected |-> FALSE, thread |-> 0, monitor |-> 0]

\* get_thread_monitor, called in thread th
get_thread_monitor(tl, th) ==
    IF tl.slot[th] # 0
    THEN [monitor |-> tl.slot[th], thread_local |-> tl]
    ELSE [monitor |-> tl.made + 1,
          thread_local |-> [slot |-> [tl.slot EXCEPT ![th] = tl.made + 1],
                            made |-> tl.made + 1]]

\* variant: the delay and the retry count reached on the page before are kept
BeginRequestKeepsBackoff(t) ==
    [t EXCEPT !.attempts = 0, !.streak = 0, !.last = RlNoRetry]

\* request_with_backoff is entered: retries = 0, delay = base_delay
BeginRequest(t) ==
    [t EXCEPT !.retries = 0, !.delay = rl.args.base_delay, !.attempts = 0,
              !.streak = 0, !.last = RlNoRetry]

\* process_page_range: the for loop goes to the next page, or ends
NextPage(t) ==
    IF t.current_page >= t.range[2] THEN [t EXCEPT !.pc = "write"]
    ELSE BeginRequest([t EXCEPT !.current_page = @ + 1])

\* variant: a failed attempt is fatal at once
MayRetryNever(t) == FALSE

\* variant: one retry more than max_retries
MayRetryOnceMore(t) == t.retries <= rl.args.max_retries

\* retries < max_retries
MayRetry(t) == t.retries < rl.args.max_retries

\* main up to the submission of every page range to the executor
RlStart(a) ==
    /\ rl.mainpc = "idle"
    /\ rl.outcome = "running"
    /\ LET ranges == parse_range(a.page_ranges)
       IN  rl' = IF ranges = <<>> \/ a.num_threads <= 0
                 THEN [rl EXCEPT !.args = a, !.outcome = "exit 1"]
                 ELSE [rl EXCEPT !.args = a, !.mainpc = "await",
                                 !.task = [i \in 1..Len(ranges) |->
                                              RlNewTask(ranges[i])]]
    /\ UNCHANGED minervars

\* the executor hands the next queued page range to a free worker thread
RlTaskStart(i) ==
    /\ rl.mainpc = "await"
    /\ rl.task[i].pc = "queued"
    /\ \A j \in RlTasks : j < i => rl.task[j].pc # "queued"
    /\ Cardinality(RlRunning) < rl.args.num_threads
    /\ \E th \in FreeThreads(rl.thread_local, {rl.task[j].thread : j \in RlRunning},
                             rl.args.num_threads) :
          LET got == get_thread_monitor(InThread(rl.thread_local, th), th)
          IN  rl' = [rl EXCEPT
                       !.task[i] = BeginRequest([@ EXCEPT !.pc = "request",
                                                          !.thread = th,
                                                          !.monitor = got.monitor]),
                       !.thread_local = got.thread_local]
    /\ UNCHANGED minervars

\* an attempt returns the page: its items are parsed and kept
RlSuccess(i) ==
    /\ rl.task[i].pc = "request"
    /\ LET t == rl.task[i]
           data == fetch_page(remote, t.current_page, rl.args.per_page)
       IN  rl' = [rl EXCEPT !.task[i] =
                    NextPage([t EXCEPT !.attempts = @ + 1,
                                       !.all_items = @ \o MonitorParse(data),
                                       !.fetched = Append(@, t.current_page)])]
    /\ UNCHANGED minervars

\* an attempt is answered 429: sleep and retry, or raise to process_page_range,
\* which logs the error and goes to the next page
RlRateLimited(i, header, jitter) ==
    /\ rl.task[i].pc = "request"
    /\ LET t == rl.task[i]
           delay == IF HasRetryAfter(header) THEN RetryAfterDelay(header)
                    ELSE Backoff(t.delay, jitter)
       IN  rl' = [rl EXCEPT !.task[i] =
                    IF MayRetry(t)
                    THEN [t EXCEPT !.attempts = @ + 1,
                                   !.retries = @ + 1,
                                   !.retried = @ \cup {t.current_page},
                                   !.delay = delay,
                                   !.streak = IF HasRetryAfter(header) THEN 0
                                              ELSE @ + 1,
                                   !.last = [kind |-> "429", header |-> header,
                                             jitter |-> IF HasRetryAfter(header)
                                                        THEN 0 ELSE jitter,
                                             prev_delay |-> t.delay,
                                             slept |-> delay]]
                    ELSE NextPage([t EXCEPT !.attempts = @ + 1,
                                            !.skipped = @ \cup {t.current_page}])]
    /\ UNCHANGED minervars

\* variant: the except branch backs off from base_delay, a delay of its own
RlErrorOwnDelay(i, jitter) ==
    /\ rl.task[i].pc = "request"
    /\ LET t == rl.task[i]
           delay == Backoff(rl.args.base_delay, jitter)
       IN  rl' = [rl EXCEPT !.task[i] =
                    IF MayRetry(t)
                    THEN [t EXCEPT !.attempts = @ + 1,
                                   !.retries = @ + 1,
                                   !.retried = @ \cup {t.current_page},
                                   !.delay = delay,
                                   !.streak = 0,
                                   !.last = [kind |-> "error", header |-> <<>>,
                                             jitter |-> jitter,
                                             prev_delay |-> t.delay,
                                             slept |-> delay]]
                    ELSE NextPage([t EXCEPT !.attempts = @ + 1,
                                            !.skipped = @ \cup {t.current_page}])]
    /\ UNCHANGED minervars

\* an attempt raises (connection error, timeout, HTTP error status, body that
\* is no JSON): sleep and retry, or raise to process_page_range
RlError(i, jitter) ==
    /\ rl.task[i].pc = "request"
    /\ LET t == rl.task[i]
           delay == Backoff(t.delay, jitter)
       IN  rl' = [rl EXCEPT !.task[i] =
                    IF MayRetry(t)
                    THEN [t EXCEPT !.attempts = @ + 1,
                                   !.retries = @ + 1,
                                   !.retried = @ \cup {t.current_page},
                                   !.delay = delay,
                                   !.streak = 0,
                                   !.last = [kind |-> "error", header |-> <<>>,
                                             jitter |-> jitter,
                                             prev_delay |-> t.delay,
                                             slept |-> delay]]
                    ELSE NextPage([t EXCEPT !.attempts = @ + 1,
                                            !.skipped = @ \cup {t.current_page}])]
    /\ UNCHANGED minervars

\* the items of the range are written to the temporary file of the task
RlWriteTemp(i) ==
    /\ rl.task[i].pc = "write"
    /\ rl' = [rl EXCEPT !.task[i].pc = "done"]
    /\ UNCHANGED minervars

\* for future in as_completed(futures): temp_files.append(temp_file)
RlCollect(i) ==
    /\ rl.mainpc = "await"
    /\ rl.task[i].pc = "done"
    /\ ~rl.task[i].collected
    /\ rl' = [rl EXCEPT !.task[i].collected = TRUE,
                        !.temp_files = Append(@, i)]
    /\ UNCHANGED minervars

\* main from merge_temp_files to the end; no HTML file of docs/ has a title
RlMerge ==
    /\ rl.mainpc = "await"
    /\ \A i \in RlTasks : rl.task[i].collected
    /\ rl' = [rl EXCEPT !.output_file = merge_temp_files(rl.temp_files, @, {}),
                        !.mainpc = "idle",
                        !.outcome = "exit 0"]
    /\ UNCHANGED minervars

\* ------------------------------------------------------------ specifications
NoHist == [start_file |-> NoFile, met |-> {}, batches |-> NoTempFiles,
           wrote |-> FALSE, faults |-> 0, prev_args |-> NoArgs,
           outcome |-> "running"]

InitProgram ==
    /\ remote \in RemoteChoices
    /\ file = NoFile
    /\ mainpc = "idle"
    /\ args = NoArgs
    /\ existing_entries = <<>>
    /\ existing_tag = DEFAULT_TAG
    /\ seen_urls = {}
    /\ lock = 0
    /\ task = <<>>
    /\ temp_files = NoTempFiles
    /\ temp_paths = <<>>
    /\ runs = 0
    /\ hist = NoHist
    /\ thread_local = NoThreads
    /\ rl = RlIdle

Init ==
    /\ InitProgram
    /\ fx = FxIdle

Next ==
    \/ \E a \in ArgChoices : StartRun(a)
    \/ \E i \in Tasks : TaskStart(i)
    \/ \E i \in Tasks : LoopExit(i)
    \/ \E i \in Tasks : FetchFails(i)
    \/ \E i \in Tasks : FetchPage(i)
    \/ \E i \in Tasks : LockAcquire(i)
    \/ \E i \in Tasks : LockCheck(i)
    \/ \E i \in Tasks : LockInsert(i)
    \/ \E i \in Tasks : AppendEntry(i)
    \/ \E i \in Tasks : PageDone(i)
    \/ \E i \in Tasks : DumpTemp(i)
    \/ \E i \in Tasks : DumpFails(i)
    \/ \E i \in Tasks : Collect(i)
    \/ MergeAndWrite
    \/ WriteFails

Spec == Init /\ [][Next]_vars

\* the backlog store functions applied to drawn inputs
InitStore ==
    /\ InitProgram
    /\ \E existing \in SeqsUpTo(ExistingPool, MaxExisting) :
       \E new_entries \in SeqsUpTo(NewPool, MaxNew) :
          fx = [FxIdle EXCEPT !.pc = "input", !.existing = existing,
                              !.new_entries = new_entries]

NextStore == FxMerge \/ FxRender \/ FxLoad

SpecStore == InitStore /\ [][NextStore]_vars

\* load_existing_entries applied to backlog files of up to MaxBlocks blocks,
\* well-formed and malformed
InitLoad ==
    /\ InitProgram
    /\ \E blocks \in SeqsUpTo(FileBlocks, MaxBlocks) \ {<<>>} :
       \E with_header \in BOOLEAN :
          fx = [FxIdle EXCEPT !.pc = "rendered",
                              !.merged = BlockEntries(blocks),
                              !.text = FileText(blocks, with_header)]

SpecLoad == InitLoad /\ [][FxLoad]_vars

\* the segments of a range list, each with the numbers it is written from:
\* "0-1", "1-2", "2-1", "1", "-1-2", " 2-2" and "a-1"
RangeSegments ==
    { [text |-> <<"0", "-", "1">>, range |-> <<0, 1>>],
      [text |-> <<"1", "-", "2">>, range |-> <<1, 2>>],
      [text |-> <<"2", "-", "1">>, range |-> <<2, 1>>],
      [text |-> <<"1">>, range |-> <<1, 1>>],
      [text |-> <<"-", "1", "-", "2">>, range |-> <<0 - 1, 2>>],
      [text |-> <<" ", "2", "-", "2">>, range |-> <<2, 2>>],
      [text |-> <<"a", "-", "1">>, range |-> <<>>] }

\* the segments with a comma between them
RECURSIVE JoinSegments(_)
JoinSegments(segments) ==
    IF Len(segments) = 1 THEN segments[1].text
    ELSE segments[1].text \o <<",">> \o JoinSegments(Tail(segments))

\* range lists of one to MaxSegments segments
RangeListTexts ==
    {JoinSegments(segments) :
        segments \in SeqsUpTo(RangeSegments, MaxSegments) \ {<<>>}}

RangeArgChoices ==
    [index_ranges : RangeListTexts, batch_size : {2}, num_threads : {1}]

RlRangeArgChoices ==
    [page_ranges : RangeListTexts, per_page : {2}, num_threads : {1},
     max_retries : {0}, base_delay : {2 * TicksPerSecond},
     max_delay : {4 * TicksPerSecond}]

\* either miner up to the submission of the ranges of its command line
NextRanges ==
    \/ \E a \in RangeArgChoices : runs = 0 /\ rl = RlIdle /\ StartRun(a)
    \/ \E a \in RlRangeArgChoices : runs = 0 /\ RlStart(a)

SpecRanges == Init /\ [][NextRanges]_vars

\* merge_entries, format_backlog and load_existing_entries applied to entries
\* of the pools, and load_existing_entries applied to the backlog files
SpecBacklog == (InitStore \/ InitLoad) /\ [][NextStore]_vars

\* one range and one worker thread, page sizes 1 to 3, ranges that start or
\* end inside a page or beyond the data
\* "0-1", "1", "1-2", "0-3" and "2-4"
PagingRanges ==
    {<<"0", "-", "1">>, <<"1">>, <<"1", "-", "2">>, <<"0", "-", "3">>,
     <<"2", "-", "4">>}

PagingArgChoices ==
    [index_ranges : PagingRanges,
     batch_size : {1, 2, 3},
     num_threads : {1}]

InitPaging ==
    /\ remote \in PagingRemotes
    /\ file = NoFile
    /\ mainpc = "idle"
    /\ args = NoArgs
    /\ existing_entries = <<>>
    /\ existing_tag = DEFAULT_TAG
    /\ seen_urls = {}
    /\ lock = 0
    /\ task = <<>>
    /\ temp_files = NoTempFiles
    /\ temp_paths = <<>>
    /\ runs = 0
    /\ hist = NoHist
    /\ thread_local = NoThreads
    /\ fx = FxIdle
    /\ rl = RlIdle

NextPaging ==
    \/ \E a \in PagingArgChoices : StartRun(a)
    \/ \E i \in Tasks : TaskStart(i)
    \/ \E i \in Tasks : LoopExit(i)
    \/ \E i \in Tasks : FetchFails(i)
    \/ \E i \in Tasks : FetchPage(i)
    \/ \E i \in Tasks : LockAcquire(i)
    \/ \E i \in Tasks : LockCheck(i)
    \/ \E i \in Tasks : LockInsert(i)
    \/ \E i \in Tasks : AppendEntry(i)
    \/ \E i \in Tasks : PageDone(i)
    \/ \E i \in Tasks : DumpTemp(i)
    \/ \E i \in Tasks : Collect(i)
    \/ MergeAndWrite

SpecPaging == InitPaging /\ [][NextPaging]_vars

\* runs on every kind of command line: range lists with an inverted segment
\* ("2-1,0-1"), a bound that is no integer ("0-1,a-1", "0-1-2"), a bare index
\* ("1"), blanks (" 0 - 1"), an empty token ("0-1,"), nothing at all (""), and
\* thread counts and batch sizes that are not positive
ConfigRangeTexts ==
    {<<"0", "-", "1">>,
     <<"2", "-", "1", ",", "0", "-", "1">>,
     <<"0", "-", "1", ",", "a", "-", "1">>,
     <<"0", "-", "1", "-", "2">>,
     <<"1">>,
     <<" ", "0", " ", "-", " ", "1">>,
     <<"0", "-", "1", ",">>,
     <<"2", "-", "1">>,
     <<>>}

ConfigArgChoices ==
    [index_ranges : ConfigRangeTexts,
     batch_size : {0, 2},
     num_threads : {0, 1}]

NextConfig ==
    \/ \E a \in ConfigArgChoices : StartRun(a)
    \/ \E i \in Tasks : TaskStart(i)
    \/ \E i \in Tasks : LoopExit(i)
    \/ \E i \in Tasks : FetchFails(i)
    \/ \E i \in Tasks : FetchPage(i)
    \/ \E i \in Tasks : LockAcquire(i)
    \/ \E i \in Tasks : LockCheck(i)
    \/ \E i \in Tasks : LockInsert(i)
    \/ \E i \in Tasks : AppendEntry(i)
    \/ \E i \in Tasks : PageDone(i)
    \/ \E i \in Tasks : DumpTemp(i)
    \/ \E i \in Tasks : DumpFails(i)
    \/ \E i \in Tasks : Collect(i)
    \/ MergeAndWrite
    \/ WriteFails

SpecConfig == Init /\ [][NextConfig]_vars

\* --page-ranges: "1-2", "1-1,2-2" and "2-1"
RlRangeTexts ==
    {<<"1", "-", "2">>,
     <<"1", "-", "1", ",", "2", "-", "2">>,
     <<"2", "-", "1">>}

\* --base-delay 2.0 with --max-delay 1.5 or 4.0
RlArgChoices ==
    [page_ranges : RlRangeTexts,
     per_page : {0, 2},
     num_threads : {0, 2},
     max_retries : {0, 2},
     base_delay : {2 * TicksPerSecond},
     max_delay : {24, 4 * TicksPerSecond}]

NextLimited ==
    \/ \E a \in RlArgChoices : RlStart(a)
    \/ \E i \in RlTasks : RlTaskStart(i)
    \/ \E i \in RlTasks : RlSuccess(i)
    \/ \E i \in RlTasks : \E header \in RetryAfterChoices :
          \E jitter \in JitterQuarters : RlRateLimited(i, header, jitter)
    \/ \E i \in RlTasks : \E jitter \in JitterQuarters : RlError(i, jitter)
    \/ \E i \in RlTasks : RlWriteTemp(i)
    \/ \E i \in RlTasks : RlCollect(i)
    \/ RlMerge

SpecLimited == Init /\ [][NextLimited]_vars

\* either script is run once, alone: the parallel miner on ArgChoices, or the
\* rate-limited miner with fewer, as many or more threads than page ranges
RlPoolArgChoices ==
    [page_ranges : RlRangeTexts,
     per_page : {2},
     num_threads : {1, 2, 3},
     max_retries : {0, 1},
     base_delay : {2 * TicksPerSecond},
     max_delay : {4 * TicksPerSecond}]

NextEither ==
    \/ \E a \in ArgChoices : runs = 0 /\ rl = RlIdle /\ StartRun(a)
    \/ \E i \in Tasks : TaskStart(i)
    \/ \E i \in Tasks : LoopExit(i)
    \/ \E i \in Tasks : FetchFails(i)
    \/ \E i \in Tasks : FetchPage(i)
    \/ \E i \in Tasks : LockAcquire(i)
    \/ \E i \in Tasks : LockCheck(i)
    \/ \E i \in Tasks : LockInsert(i)
    \/ \E i \in Tasks : AppendEntry(i)
    \/ \E i \in Tasks : PageDone(i)
    \/ \E i \in Tasks : DumpTemp(i)
    \/ \E i \in Tasks : DumpFails(i)
    \/ \E i \in Tasks : Collect(i)
    \/ MergeAndWrite
    \/ WriteFails
    \/ \E a \in RlPoolArgChoices : runs = 0 /\ RlStart(a)
    \/ \E i \in RlTasks : RlTaskStart(i)
    \/ \E i \in RlTasks : RlSuccess(i)
    \/ \E i \in RlTasks : \E header \in RetryAfterChoices :
          \E jitter \in JitterQuarters : RlRateLimited(i, header, jitter)
    \/ \E i \in RlTasks : \E jitter \in JitterQuarters : RlError(i, jitter)
    \/ \E i \in RlTasks : RlWriteTemp(i)
    \/ \E i \in RlTasks : RlCollect(i)
    \/ RlMerge

SpecEither == Init /\ [][NextEither]_vars

\* the rate-limited miner run on documents that may share a title, where its
\* output file may be there already: the file a run with --page-ranges 2-2
\* --per-page 2 wrote
RlEarlierItems ==
    RlNewItems(RlBlocks(MonitorParse(fetch_page(Remote1, 2, 2))), {}, {}, <<>>)

RlEarlierOutput ==
    [exists |-> TRUE, count |-> Len(RlEarlierItems), items |-> RlEarlierItems]

InitRerun ==
    /\ remote \in TitledRemotes
    /\ file = NoFile
    /\ mainpc = "idle"
    /\ args = NoArgs
    /\ existing_entries = <<>>
    /\ existing_tag = DEFAULT_TAG
    /\ seen_urls = {}
    /\ lock = 0
    /\ task = <<>>
    /\ temp_files = NoTempFiles
    /\ temp_paths = <<>>
    /\ runs = 0
    /\ hist = NoHist
    /\ thread_local = NoThreads
    /\ fx = FxIdle
    /\ \E output_file \in {RlNoOutput, RlEarlierOutput} :
          rl = [RlIdle EXCEPT !.output_file = output_file]

NextRerun ==
    \/ \E a \in RlPoolArgChoices : RlStart(a)
    \/ \E i \in RlTasks : RlTaskStart(i)
    \/ \E i \in RlTasks : RlSuccess(i)
    \/ \E i \in RlTasks : \E header \in RetryAfterChoices :
          \E jitter \in JitterQuarters : RlRateLimited(i, header, jitter)
    \/ \E i \in RlTasks : \E jitter \in JitterQuarters : RlError(i, jitter)
    \/ \E i \in RlTasks : RlWriteTemp(i)
    \/ \E i \in RlTasks : RlCollect(i)
    \/ RlMerge

SpecRerun == InitRerun /\ [][NextRerun]_vars

\* ==================================================================== claims
Range(seq) == {seq[k] : k \in 1..Len(seq)}

UrlsOf(entries) == {entries[k].url : k \in 1..Len(entries)}

WithUrl(entries, url) == {k \in 1..Len(entries) : entries[k].url = url}

\* the URLs of the "URL: ..." lines of a text, in order
RECURSIVE UrlLines(_)
UrlLines(text) ==
    IF text = <<>> THEN <<>>
    ELSE (IF IsUrlLine(Head(text)) THEN <<JoinWords(Tail(Head(text)))>> ELSE <<>>)
         \o UrlLines(Tail(text))

UrlsInText(text) == Range(UrlLines(text))

UrlCount(text, url) ==
    Cardinality({k \in 1..Len(UrlLines(text)) : UrlLines(text)[k] = url})

RECURSIVE IsSubsequence(_, _)
IsSubsequence(a, b) ==
    IF a = <<>> THEN TRUE
    ELSE IF b = <<>> THEN FALSE
    ELSE IF Head(a) = Head(b) THEN IsSubsequence(Tail(a), Tail(b))
    ELSE IsSubsequence(a, Tail(b))

OfDay(entries, d) == SelectSeq(entries, LAMBDA e : e.datetime = d)

FirstIndex(entries, url) ==
    CHOOSE k \in WithUrl(entries, url) : \A j \in WithUrl(entries, url) : k <= j

FxInput == fx.existing \o fx.new_entries

FxMerged == fx.pc \in {"merged", "rendered", "loaded"}

\* C7: merge_entries(existing, new): a URL that occurs in existing and in new
\* has exactly one entry in the result, and that entry is an entry of
\* existing, unchanged, never the new one.
C7_ExistingWins ==
    FxMerged =>
      \A url \in UrlsOf(fx.existing) \cap UrlsOf(fx.new_entries) :
         /\ Cardinality(WithUrl(fx.merged, url)) = 1
         /\ \A k \in WithUrl(fx.merged, url) :
               /\ fx.merged[k] \in Range(fx.existing)
               /\ fx.merged[k] \notin Range(fx.new_entries)

C7_Witness ==
    /\ fx.pc = "merged"
    /\ \E url \in UrlsOf(fx.existing) \cap UrlsOf(fx.new_entries) :
          /\ Cardinality(WithUrl(fx.existing, url)) = 1
          /\ \E k \in WithUrl(fx.merged, url) :
                fx.merged[k].summary = << <<"edited", "text">> >>

\* C8: merge_entries returns exactly one entry per distinct non-empty URL of
\* existing or new and nothing else: no URL is dropped, none appears twice,
\* every new entry with a URL absent from existing is added.
C8_OnePerUrl ==
    FxMerged =>
      /\ UrlsOf(fx.merged) = UrlsOf(FxInput) \ {""}
      /\ Len(fx.merged) = Cardinality(UrlsOf(fx.merged))
      /\ Range(fx.merged) \subseteq Range(FxInput)
      /\ \A k \in 1..Len(fx.new_entries) :
            LET e == fx.new_entries[k]
            IN  (e.url # "" /\ e.url \notin UrlsOf(fx.existing))
                => \E j \in WithUrl(fx.merged, e.url) :
                      fx.merged[j] \in Range(fx.new_entries)

C8_Witness ==
    /\ fx.pc = "merged"
    /\ Len(fx.merged) = 3
    /\ "" \in UrlsOf(fx.new_entries)
    /\ Len(FxInput) > 3

\* C9 as stated: the result of merge_entries, and the order format_backlog
\* renders, is non-increasing in timestamp, and entries with equal timestamps
\* keep their relative input order (existing in their order, then new).
C9_TiesKeepInputOrder ==
    FxMerged =>
      /\ \A k \in 1..(Len(fx.merged) - 1) :
            fx.merged[k].datetime >= fx.merged[k + 1].datetime
      /\ \A d \in Days : IsSubsequence(OfDay(fx.merged, d), OfDay(FxInput, d))

\* C9 as amended: non-increasing in timestamp, in the result and in the
\* rendered text; entries with equal timestamps are in the order in which
\* their URLs first occur in the input (existing, then new).
C9_TiesKeepFirstOccurrenceOrder ==
    /\ FxMerged =>
         \A k \in 1..(Len(fx.merged) - 1) :
            /\ fx.merged[k].datetime >= fx.merged[k + 1].datetime
            /\ fx.merged[k].datetime = fx.merged[k + 1].datetime
               => FirstIndex(FxInput, fx.merged[k].url)
                  < FirstIndex(FxInput, fx.merged[k + 1].url)
    /\ fx.pc \in {"rendered", "loaded"} /\ fx.merged # <<>>
       => UrlLines(fx.text) = [k \in 1..Len(fx.merged) |-> fx.merged[k].url]

C9_Witness ==
    /\ fx.pc = "rendered"
    /\ Len(fx.merged) = 3
    /\ fx.merged[1].datetime = fx.merged[2].datetime
    /\ fx.merged[1] \in Range(fx.existing)
    /\ fx.merged[2] \in Range(fx.new_entries)
    /\ fx.merged[3].datetime < fx.merged[2].datetime

SameContent(a, b) ==
    /\ a.url = b.url
    /\ a.title = b.title
    /\ a.datetime = b.datetime
    /\ a.display_timestamp = b.display_timestamp
    /\ a.source = b.source
    /\ a.batch_marker = b.batch_marker
    /\ a.summary = b.summary

\* C5: for a well-formed non-empty entry set E, load_existing_entries of the
\* text format_backlog(E) returns exactly the entries of E: as many, with the
\* same URL, title, timestamp, source, batch marker and summary.
C5_RoundTrip ==
    (fx.pc = "loaded" /\ fx.merged # <<>>) =>
      /\ Len(fx.parsed.entries) = Len(fx.merged)
      /\ \A k \in 1..Len(fx.merged) :
            k <= Len(fx.parsed.entries)
            => SameContent(fx.parsed.entries[k], fx.merged[k])

\* ------------------------------------------------------------- claims on runs
AllUrls == {MonitorParse(remote)[k].url : k \in 1..Len(MonitorParse(remote))}

\* the places where an entry for url was appended to a worker's batch
Accepts(url) ==
    {<<i, k>> \in Tasks \X (1..Len(remote)) :
        k <= Len(task[i].new_entries) /\ task[i].new_entries[k].url = url}

\* workers that inserted url and are about to append its entry
Appending(url) == {i \in Tasks : task[i].pc = "append" /\ Item(i).url = url}

Preseeded == UrlsOf(existing_entries)

MetUrls == {m[2] : m \in hist.met}

MetBy(url) == {m[1] : m \in {x \in hist.met : x[2] = url}}

WorkersOver == \A i \in Tasks : task[i].pc \in {"dump", "done", "failed"}

\* C1: in process_range the check and the insert on the seen-URL set are one
\* atomic step under the lock: at most one worker is between them, every URL
\* is accepted at most once in a run, and exactly once when some worker met
\* it and it was not pre-seeded.
C1_AcceptedOnce ==
    /\ Cardinality({i \in Tasks : task[i].pc \in {"check", "insert"}}) <= 1
    /\ \A i \in Tasks : task[i].pc \in {"check", "insert"} => lock = i
    /\ \A url \in AllUrls :
          /\ Cardinality(Accepts(url)) + Cardinality(Appending(url)) <= 1
          /\ url \in seen_urls \ Preseeded
             => Cardinality(Accepts(url)) + Cardinality(Appending(url)) = 1
          /\ (WorkersOver /\ url \in MetUrls \ Preseeded)
             => Cardinality(Accepts(url)) = 1

\* one worker is between its check and its insert of a new URL while another
\* worker waits at the lock with a record of the same URL
C1_Witness ==
    \E i, j \in Tasks :
       /\ i # j
       /\ task[i].pc = "insert"
       /\ task[j].pc = "item"
       /\ task[j].index < task[j].stop
       /\ Item(j).url = Item(i).url
       /\ Item(i).url \notin Preseeded

RunOver == mainpc = "idle" /\ runs >= 1

\* C2: when two concurrent workers each fetch a record with the same URL, not
\* yet in the backlog, the backlog written at the end of the run has exactly
\* one entry for that URL, whatever the interleaving.
C2_OneEntryForSharedUrl ==
    (RunOver /\ hist.wrote /\ hist.faults = 0 /\ MaxWorkers >= 2) =>
      \A url \in AllUrls :
         (Cardinality(MetBy(url)) >= 2 /\ url \notin UrlsInText(hist.start_file.text))
         => UrlCount(file.text, url) = 1

\* C3: a second run with the same arguments against the same remote data
\* leaves the backlog file exactly as the first run wrote it.
C3_RerunLeavesFileUnchanged ==
    (RunOver /\ runs >= 2 /\ hist.wrote /\ hist.faults = 0 /\ args = hist.prev_args)
    => file = hist.start_file

\* C4: every URL in the backlog file written by the previous run is still
\* there, in exactly one entry, in the file written by the next run.
C4_NoUrlLost ==
    (RunOver /\ runs >= 2 /\ hist.wrote /\ hist.faults = 0) =>
      \A url \in UrlsInText(hist.start_file.text) : UrlCount(file.text, url) = 1

\* C6: before any worker is dispatched the seen-URL set holds every URL of the
\* existing backlog file, so no worker accepts a URL that is in the file.
C6_SeenHoldsFileUrls ==
    mainpc = "await" =>
      /\ UrlsInText(file.text) \subseteq seen_urls
      /\ \A url \in UrlsInText(file.text) : Accepts(url) = {}

\* the paths of the finished ranges in the order of their submission
RECURSIVE PathsInSubmissionOrder(_)
PathsInSubmissionOrder(i) ==
    IF i > Len(task) THEN <<>>
    ELSE (IF task[i].pc = "done" THEN <<TempPath(i, task[i].range)>> ELSE <<>>)
         \o PathsInSubmissionOrder(i + 1)

\* what the run writes when its batches arrive in submission order
ReferenceEntries ==
    merge_entries(existing_entries,
                  load_thread_results(hist.batches, PathsInSubmissionOrder(1),
                                      RunTag))

WrittenUrls == UrlLines(file.text)

DayOfUrl(entries, url) == entries[FirstIndex(entries, url)].datetime

\* C10 as stated: for the same harvested records the written backlog has its
\* entries in the same order for every completion order of the workers, also
\* among entries of equal timestamp.
C10_OrderIndependentOfArrival ==
    (RunOver /\ hist.wrote) =>
       file.text = format_backlog(ReferenceEntries, RunTag)

\* C10 as amended: for the same harvested records the written backlog holds
\* the same entries with the same sequence of timestamps, newest first, for
\* every completion order; only entries of equal timestamp may change places.
C10_OrderIndependentUpToTies ==
    (RunOver /\ hist.wrote /\ ReferenceEntries # <<>>) =>
       /\ Len(WrittenUrls) = Len(ReferenceEntries)
       /\ Range(WrittenUrls) = UrlsOf(ReferenceEntries)
       /\ \A k \in 1..Len(WrittenUrls) :
             /\ k <= Len(ReferenceEntries)
             /\ WrittenUrls[k] \in UrlsOf(ReferenceEntries)
             /\ DayOfUrl(ReferenceEntries, WrittenUrls[k])
                = ReferenceEntries[k].datetime
             /\ k > 1 => DayOfUrl(ReferenceEntries, WrittenUrls[k - 1])
                         >= DayOfUrl(ReferenceEntries, WrittenUrls[k])

C10_Witness ==
    /\ RunOver
    /\ hist.wrote
    /\ Len(WrittenUrls) = 3
    /\ temp_paths # PathsInSubmissionOrder(1)
    /\ file.text # format_backlog(ReferenceEntries, RunTag)

\* ------------------------------------------------------ claims on one range
UrlSeq(entries) == [k \in 1..Len(entries) |-> entries[k].url]

\* the records of the remote source at the global indices of the range
SpanOf(index_range) ==
    SubSeq(remote, index_range[1] + 1, Min(index_range[2] + 1, Len(remote)))

WorkerOver(i) == task[i].pc \in {"dump", "done"}

\* C11: process_range on index range [a,b] with page size p, when no fetch
\* fails, takes exactly the records at the global indices a..b, each once,
\* also when a or b is not page-aligned; the span is shorter only where the
\* remote source ends, never because the parser dropped records of a page.
C11_TakesExactlyTheSpan ==
    \A i \in Tasks :
       (WorkerOver(i) /\ hist.faults = 0 /\ ~hist.start_file.exists)
       => UrlSeq(task[i].new_entries)
          = UrlSeq(MonitorParse(SpanOf(task[i].range)))

\* the URLs of the records whose index lies in at least one range of the run
RangedUrls ==
    UNION {Range(UrlSeq(MonitorParse(SpanOf(IndexRanges[k])))) :
             k \in 1..Len(IndexRanges)}

\* C12: for any list of index ranges of one run, overlapping or identical, and
\* any thread count, a run with no upstream errors writes every record whose
\* index lies in at least one range exactly once: no duplicate, none lost.
C12_RangedRecordsWrittenOnce ==
    (RunOver /\ hist.wrote /\ hist.faults = 0 /\ ~hist.start_file.exists) =>
       /\ \A url \in RangedUrls : UrlCount(file.text, url) = 1
       /\ UrlsInText(file.text) \subseteq RangedUrls

\* ----------------------------------------------- claims on the command line
\* the ranges of the segments that have the separator, two integer bounds and
\* start <= end, in the order of the segments
RECURSIVE ValidSegments(_)
ValidSegments(parts) ==
    IF parts = <<>> THEN <<>>
    ELSE LET part == Head(parts)
             bounds == StrSplit(part, "-", <<>>)
             valid == /\ Len(bounds) = 2
                      /\ IntOf(bounds[1]).ok
                      /\ IntOf(bounds[2]).ok
                      /\ IntOf(bounds[1]).value <= IntOf(bounds[2]).value
         IN  (IF valid THEN << <<IntOf(bounds[1]).value, IntOf(bounds[2]).value>> >>
              ELSE <<>>)
             \o ValidSegments(Tail(parts))

ValidRanges == ValidSegments(StrSplit(args.index_ranges, ",", <<>>))

Submitted == [i \in 1..Len(task) |-> task[i].range]

Aborted == mainpc = "idle" /\ task = <<>> /\ ~hist.wrote

\* C13: parsing a range specification skips each segment that lacks the
\* separator, has a non-integer bound or has start > end, and the run goes on
\* with the remaining valid ranges in input order; the run aborts only when
\* no segment is valid.
C13_InvalidSegmentsSkipped ==
    (runs >= 1 /\ args.num_threads > 0 /\ args.batch_size > 0) =>
       IF ValidRanges = <<>> THEN Aborted ELSE Submitted = ValidRanges

\* page requests made by the workers of the run of process_range
PagesRequested == {i \in Tasks : task[i].requested # <<>>}

\* the parallel miner: an invalid configuration ends the run at once
ParallelAbortsOnInvalid ==
    (runs >= 1 /\ ~ConfigValid(args)) =>
       /\ Aborted
       /\ PagesRequested = {}
       /\ file = hist.start_file

RlConfigValid ==
    /\ parse_range(rl.args.page_ranges) # <<>>
    /\ rl.args.num_threads > 0
    /\ rl.args.per_page > 0

RlPagesRequested ==
    {i \in RlTasks : \/ rl.task[i].attempts > 0
                     \/ rl.task[i].fetched # <<>>
                     \/ rl.task[i].skipped # {}}

\* the rate-limited miner: an invalid configuration ends the run at once
LimitedAbortsOnInvalid ==
    (rl.args # RlNoArgs /\ ~RlConfigValid) =>
       /\ rl.mainpc = "idle"
       /\ RlPagesRequested = {}
       /\ rl.output_file = RlNoOutput

\* C14: when the configuration is invalid (no valid range, or a thread count
\* or a batch/page size that is not positive) the run aborts before any page
\* request is issued and without rewriting the backlog file.
C14_InvalidConfigAborts == ParallelAbortsOnInvalid /\ LimitedAbortsOnInvalid

\* the run got to the write of the backlog file and the write raised
WriteFailed == RunOver /\ ConfigValid(args) /\ ~hist.wrote

\* C15: the process reports failure to its caller exactly when no range could
\* be parsed or the output backlog file could not be written; a write failure
\* ends the run in a failure outcome, failures of single ranges do not.
C15_FailureExactlyWhenFatal ==
    (RunOver /\ hist.outcome # "running") =>
       (hist.outcome # "exit 0"
        <=> (~parse_index_ranges(args.index_ranges).ok \/ WriteFailed))

\* ------------------------------------------- claims on request_with_backoff
\* the delay a retry starts from: base_delay, then the sleep of the retry
\* before
PreviousDelay(t) == IF t.retries = 0 THEN rl.args.base_delay ELSE t.last.slept

\* task i has just slept after a 429 response
RetriedAfter429(i) ==
    /\ i \in DOMAIN rl.task'
    /\ rl.task[i].pc = "request"
    /\ rl.task'[i].retries = rl.task[i].retries + 1
    /\ rl.task'[i].last.kind = "429"

Only429sWithoutHeader(i) ==
    rl.task[i].streak >= 1 /\ rl.task[i].streak = rl.task[i].retries

\* C17 as stated: for any sequence of consecutive 429 responses without a
\* Retry-After header every computed delay is at least the previous delay
\* (base_delay before the first retry), for every jitter value, and no
\* computed delay exceeds max_delay.
C17_DelaysNeverShrink ==
    \A i \in RlTasks :
       Only429sWithoutHeader(i) =>
          /\ rl.task[i].last.slept >= rl.task[i].last.prev_delay
          /\ rl.task[i].last.slept <= rl.args.max_delay

\* C17 as amended: no delay computed after a 429 without Retry-After exceeds
\* max_delay, and it is at least the previous delay whenever that previous
\* delay is itself at most max_delay (so for the whole sequence when
\* base_delay <= max_delay).
C17_DelaysNeverShrinkBelowCap ==
    \A i \in RlTasks :
       (rl.task[i].streak >= 1) =>
          /\ rl.task[i].last.slept <= rl.args.max_delay
          /\ rl.task[i].last.prev_delay <= rl.args.max_delay
             => rl.task[i].last.slept >= rl.task[i].last.prev_delay
          /\ (Only429sWithoutHeader(i) /\ rl.args.base_delay <= rl.args.max_delay)
             => rl.task[i].last.slept >= rl.task[i].last.prev_delay

\* two 429s without the header in a row: the first delay lies between
\* base_delay and max_delay, the second is cut at max_delay
C17_Witness ==
    \E i \in RlTasks :
       /\ Only429sWithoutHeader(i)
       /\ rl.task[i].retries = 2
       /\ rl.task[i].last.prev_delay > rl.args.base_delay
       /\ rl.task[i].last.prev_delay < rl.args.max_delay
       /\ rl.task[i].last.slept = rl.args.max_delay

\* task i gives up its current page in this step
SkipsPage(i) ==
    /\ i \in DOMAIN rl.task'
    /\ rl.task'[i].skipped # rl.task[i].skipped

\* C18: request_with_backoff makes at most max_retries retries (max_retries + 1
\* attempts) for one page, whatever the mix of 429 and other failures, and
\* raises once the cap is exceeded; process_page_range then skips that page
\* and goes on with the next page of its range, the run is not aborted and
\* the sibling workers are not touched.
C18_RetriesCapped ==
    /\ [](\A i \in RlTasks :
            /\ rl.task[i].retries <= rl.args.max_retries
            /\ rl.task[i].attempts <= rl.args.max_retries + 1)
    /\ [][\A i \in RlTasks :
            SkipsPage(i) =>
               /\ rl.task[i].retries = rl.args.max_retries
               /\ rl.task[i].attempts = rl.args.max_retries
               /\ rl.task'[i].skipped = rl.task[i].skipped \cup {rl.task[i].current_page}
               /\ rl.task'[i].all_items = rl.task[i].all_items
               /\ IF rl.task[i].current_page < rl.task[i].range[2]
                  THEN /\ rl.task'[i].pc = "request"
                       /\ rl.task'[i].current_page = rl.task[i].current_page + 1
                       /\ rl.task'[i].retries = 0
                  ELSE rl.task'[i].pc = "write"
               /\ \A j \in RlTasks \ {i} : rl.task'[j] = rl.task[j]
               /\ rl.mainpc' = rl.mainpc
               /\ rl.outcome' = "running"]_vars

\* the run is over: one worker gave up its page after max_retries + 1
\* attempts, its sibling fetched its own page, whose items were written
C18_Witness ==
    /\ rl.outcome = "exit 0"
    /\ rl.args.max_retries = 2
    /\ rl.output_file.items # <<>>
    /\ \E i, j \in RlTasks :
          /\ i # j
          /\ rl.task[i].skipped # {}
          /\ rl.task[i].attempts = rl.args.max_retries + 1
          /\ rl.task[j].skipped = {}
          /\ rl.task[j].fetched # <<>>

\* ------------------------------------------------- claims on the orchestrator
FailedTasks == {i \in Tasks : task[i].pc = "failed"}

\* the run is over, a worker raised, and nothing else went wrong
RunOverWithFailedWorker == RunOver /\ FailedTasks # {} /\ hist.faults = 1

\* C19: if a worker raises an uncaught exception while processing its range,
\* the orchestrator still merges and writes the backlog, and the written
\* backlog contains every existing entry and every entry produced by the
\* workers that did not fail.
C19_FailedWorkerIsolated ==
    RunOverWithFailedWorker =>
       /\ hist.wrote
       /\ UrlsInText(hist.start_file.text) \subseteq UrlsInText(file.text)
       /\ \A i \in Tasks \ FailedTasks :
             UrlsOf(task[i].new_entries) \subseteq UrlsInText(file.text)

\* the step writes the backlog file
WritesBacklog == hist'.wrote /\ ~hist.wrote

\* C20: in every run that passes the configuration checks the phases occur
\* in the order load backlog, dispatch, await workers, merge, write: the
\* backlog file is written at most once, by a single merge-and-write step
\* that starts only after every submitted worker has finished (returned or
\* failed); no merge or write happens while a worker is still running.
C20_PhasesInOrder ==
    /\ [](mainpc = "await" =>
            /\ ~hist.wrote
            /\ file = hist.start_file
            /\ existing_entries = load_existing_entries(file).entries
            /\ load_existing_entries(file).urls \subseteq seen_urls)
    /\ [](Running # {} => mainpc = "await")
    /\ [][file' # file => WritesBacklog]_vars
    /\ [][WritesBacklog =>
            /\ mainpc = "await" /\ mainpc' = "idle"
            /\ runs' = runs
            /\ \A i \in Tasks : task[i].pc \in {"done", "failed"}
            /\ task' = task
            /\ file'.text = format_backlog(
                               merge_entries(existing_entries,
                                   load_thread_results(temp_files, temp_paths, RunTag)),
                               RunTag)]_vars

\* a run of two workers, one of which failed, has written the backlog
C20_Witness ==
    /\ RunOver
    /\ hist.wrote
    /\ Len(task) = 2
    /\ FailedTasks # {}
    /\ file # hist.start_file

\* ------------------------------------------------------------------------ C21
\* main of rate_limited_register_miner.py: ranges
RlRanges == parse_range(rl.args.page_ranges)

\* C21: while the ranges of a run are being worked on, the number of running
\* workers is at most min(requested threads, number of ranges), and the tasks
\* are the ranges, one task for each range in the order of the ranges; in
\* either miner.
C21_WorkersWithinPool ==
    /\ mainpc = "await" =>
          /\ Cardinality(Running) <= Min(args.num_threads, Len(IndexRanges))
          /\ Len(task) = Len(IndexRanges)
          /\ \A i \in Tasks : task[i].range = IndexRanges[i]
    /\ rl.mainpc = "await" =>
          /\ Cardinality(RlRunning) <= Min(rl.args.num_threads, Len(RlRanges))
          /\ Len(rl.task) = Len(RlRanges)
          /\ \A i \in RlTasks : rl.task[i].range = RlRanges[i]

\* fewer threads than ranges: every thread is busy and a range is waiting
C21_Witness ==
    /\ mainpc = "await"
    /\ args.num_threads < Len(IndexRanges)
    /\ Cardinality(Running) = args.num_threads
    /\ \E i \in Tasks : task[i].pc = "queued"

\* ------------------------------------------------------------------------ C22
\* the text has a header stating as many items as it has "URL:" lines, a
\* divider line between two blocks and none after the last block
CountsItsBlocks(text) ==
    LET n == Len(UrlLines(text))
        dividers == Cardinality({k \in 1..Len(text) : text[k] = SEPARATOR_LINE})
    IN  /\ SubSeq(text, 1, 3) = <<HeaderRule, CountLine(n), HeaderRule>>
        /\ n >= 1 => dividers = n - 1 /\ Last(text) # SEPARATOR_LINE

\* C22: format_backlog of n >= 1 entries gives a header stating n items, then
\* the n entries newest first with a divider line between them, and the count
\* in the header of every written file (the backlog of the parallel miner,
\* the output file of the rate-limited miner) is the number of entry blocks
\* of the file.
C22_HeaderCountsBlocks ==
    /\ fx.pc \in {"rendered", "loaded"} =>
          /\ CountsItsBlocks(fx.text)
          /\ UrlLines(fx.text) = UrlSeq(SortNewestFirst(fx.merged))
    /\ file.exists => CountsItsBlocks(file.text)
    /\ rl.output_file.exists => rl.output_file.count = Len(rl.output_file.items)

\* ------------------------------------------------------------------------ C23
\* the records the workers of the rate-limited miner handed to the merge
RlCollectedItems ==
    UNION {Range(rl.task[i].all_items) : i \in {j \in RlTasks : rl.task[j].collected}}

RlOutputUrls == UrlsOf(rl.output_file.items)

\* C23: the URL alone decides whether a record is kept: after a merge every
\* URL of the merged records is in the result, whatever the titles of the
\* records are (merge_entries, and merge_temp_files once the run is over).
C23_UrlIsTheOnlyKey ==
    /\ FxMerged => UrlsOf(FxInput) \ {""} \subseteq UrlsOf(fx.merged)
    /\ rl.outcome = "exit 0" =>
          \A item \in RlCollectedItems : item.url # "" => item.url \in RlOutputUrls

\* ------------------------------------------------------------------------ C24
\* task i is back at the head of the while loop after a pass of the loop body
BackAtLoopHead(i) ==
    /\ i \in DOMAIN task /\ i \in DOMAIN task'
    /\ task[i].pc \in {"loop", "item"}
    /\ task'[i].pc = "loop"
    /\ task'[i] # task[i]

\* the indices of the range of task i
RangeLength(i) == task[i].range[2] - task[i].range[1] + 1

\* C24: a pass of the loop body of process_range that does not leave the loop
\* strictly increases current_offset, whatever the page brought (full, short,
\* empty, every item dropped by the parser, fetch failure); so a range of n
\* indices is worked off with at most n page requests.
C24_EveryPassAdvances ==
    /\ [][\A i \in DOMAIN task :
             BackAtLoopHead(i) => task'[i].current_offset > task[i].current_offset]_vars
    /\ [](\A i \in Tasks :
             /\ Len(task[i].requested) <= RangeLength(i)
             /\ task[i].pc = "loop" =>
                   task[i].current_offset >= task[i].range[1] + Len(task[i].requested))

\* a worker is through with a range after a failed fetch and a further page
C24_Witness ==
    \E i \in Tasks :
       /\ task[i].pc = "done"
       /\ Len(task[i].requested) >= 2
       /\ hist.faults > 0

\* ------------------------------------------------------------------------ C25
\* the URLs the workers of the run added to the seen-URL set
AcceptedUrls == UNION {UrlsOf(task[i].new_entries) : i \in Tasks}

\* C25: every URL a worker added to the seen-URL set during a run is in the
\* backlog written at the end of the run, also when the worker that accepted
\* it failed afterwards.
C25_AcceptedUrlsWritten ==
    RunOver /\ hist.wrote => AcceptedUrls \subseteq UrlsInText(file.text)

\* ------------------------------------------------------------------------ C26
\* task j writes its temporary file at the path task i has written its file to
WritesTempFileOf(j, i) ==
    /\ j \in DOMAIN task'
    /\ task[j].pc = "dump" /\ task'[j].pc = "done"
    /\ task[i].pc = "done"
    /\ TempPath(j, task[j].range) = TempPath(i, task[i].range)

\* C26: the temporary result file one task of a run has written is never
\* written by another task of the run, also when the two tasks have equal
\* ranges.
C26_TempFilesNotShared ==
    [][\A i, j \in Tasks : i # j => ~WritesTempFileOf(j, i)]_vars

\* ------------------------------------------------------------------------ C27
\* a step of worker i of the parallel miner with no fault in it
WorkerStep(i) ==
    \/ LoopExit(i)
    \/ FetchPage(i)
    \/ LockAcquire(i)
    \/ LockCheck(i)
    \/ LockInsert(i)
    \/ AppendEntry(i)
    \/ PageDone(i)
    \/ DumpTemp(i)

\* a step of worker i of the rate-limited miner
RlWorkerStep(i) == RlSuccess(i) \/ RlWriteTemp(i)

\* C27: a worker holds the lock exactly between entering the with block and
\* leaving it after the check (URL already seen) or the insert, never while
\* it fetches a page or writes its file; a running worker can always take a
\* step, or waits for a lock holder that can; the workers of the rate-limited
\* miner, which sleep between retries, take no lock and can always go on.
C27_LockOnlyAroundCheckAndInsert ==
    /\ lock \in {0} \cup Tasks
    /\ \A i \in Tasks : lock = i <=> task[i].pc \in {"check", "insert"}
    /\ \A i \in Running :
          \/ ENABLED WorkerStep(i)
          \/ lock \in Tasks \ {i} /\ ENABLED WorkerStep(lock)
    /\ \A i \in RlRunning : ENABLED RlWorkerStep(i)

\* a worker holds the lock for the check of a URL that is already seen while
\* another worker waits for the lock
C27_Witness ==
    \E i, j \in Tasks :
       /\ i # j
       /\ lock = i
       /\ task[i].pc = "check"
       /\ Item(i).url \in seen_urls
       /\ task[j].pc = "item"
       /\ task[j].index < task[j].stop

\* ------------------------------------------------------------------------ C28
\* the documents the API returns for the k-th page request of task i
ResultsOf(i, k) == fetch_page(remote, task[i].requested[k], PageSize)

\* index of the first document of the k-th page requested by task i
PageStartOf(i, k) == (task[i].requested[k] - 1) * PageSize

\* the indices of the last requested page that lie in the range of task i
\* and hold a document the parser keeps
TakeableOnLastPage(i) ==
    LET k == Len(task[i].requested)
    IN  {n \in PageStartOf(i, k)..(PageStartOf(i, k) + Len(ResultsOf(i, k)) - 1) :
            /\ task[i].range[1] <= n /\ n <= task[i].range[2]
            /\ ParseDocument(remote[n + 1]) # <<>>}

\* the run started without a backlog file and no fetch failed
FreshRun == hist.faults = 0 /\ ~hist.start_file.exists

\* C28: process_range requests no page that starts beyond the end of the
\* range, and no page after an empty or a short one (in a run where no fetch
\* fails, every page requested before the last was full); when it stops on a
\* short page, the records of that page at indices of the range are in the
\* batch; the worker ends normally in each case.
C28_StopsAfterShortPage ==
    \A i \in Tasks :
       /\ \A k \in 1..Len(task[i].requested) :
             /\ PageStartOf(i, k) <= task[i].range[2]
             /\ (k < Len(task[i].requested) /\ hist.faults = 0)
                => Len(ResultsOf(i, k)) = PageSize
       /\ task[i].pc # "failed"
       /\ (/\ WorkerOver(i)
           /\ FreshRun
           /\ task[i].requested # <<>>
           /\ ResultsOf(i, Len(task[i].requested)) # <<>>
           /\ Len(ResultsOf(i, Len(task[i].requested))) < PageSize)
          => \A n \in TakeableOnLastPage(i) :
                ParseDocument(remote[n + 1])[1].url \in UrlsOf(task[i].new_entries)

\* ------------------------------------------------------------------------ C29
\* the step in which a page fetch of task i raises
FetchRaises(i) ==
    /\ i \in DOMAIN task'
    /\ hist'.faults = hist.faults + 1
    /\ task[i].pc = "loop"
    /\ task'[i] # task[i]

StrictlyIncreasing(seq) == \A k \in 1..(Len(seq) - 1) : seq[k] < seq[k + 1]

\* C29: when the fetch of a page raises, process_range goes on at the first
\* index of the next page with its batch as it was, and never requests a page
\* twice.
C29_FailedPageSkipped ==
    /\ [][\A i \in DOMAIN task :
             FetchRaises(i) =>
               LET page == task[i].current_offset \div PageSize + 1
               IN  /\ Last(task'[i].requested) = page
                   /\ task'[i].current_offset = page * PageSize
                   /\ task'[i].new_entries = task[i].new_entries
                   /\ task'[i].pc = "loop"]_vars
    /\ [](\A i \in Tasks :
             /\ StrictlyIncreasing(task[i].requested)
             /\ (/\ task[i].pc = "loop"
                 /\ task[i].requested # <<>>
                 /\ task[i].current_offset <= task[i].range[2])
                => task[i].current_offset \div PageSize + 1 > Last(task[i].requested))

\* a worker is through with its range with records of the pages before and
\* after a page whose fetch raised
C29_Witness ==
    \E i \in Tasks :
       /\ task[i].pc = "done"
       /\ remote = Remote1
       /\ ~hist.start_file.exists
       /\ hist.faults = 1
       /\ Len(task[i].new_entries) >= 2
       /\ UrlSeq(task[i].new_entries) # UrlSeq(MonitorParse(SpanOf(task[i].range)))

\* ------------------------------------------------------------------------ C30
\* the step in which an attempt of task i fails and the request is retried
RetryStep(i) ==
    /\ i \in DOMAIN rl.task /\ i \in DOMAIN rl'.task
    /\ rl.task[i].pc = "request" /\ rl'.task[i].pc = "request"
    /\ rl'.task[i].current_page = rl.task[i].current_page
    /\ rl'.task[i].attempts = rl.task[i].attempts + 1

\* the new delay is the backoff of the delay the previous failure left
BacksOffFromPrevious(i) ==
    \E jitter \in JitterQuarters :
       rl'.task[i].delay = Backoff(rl.task[i].delay, jitter)

\* the new delay is the number of the Retry-After header of a 429 response
TakesRetryAfter(i) ==
    /\ rl'.task[i].last.kind = "429"
    /\ HasRetryAfter(rl'.task[i].last.header)
    /\ rl'.task[i].delay = RetryAfterDelay(rl'.task[i].last.header)

\* while a request is retried its retry counter is the number of its failures
CountsEveryFailure ==
    \A i \in RlTasks :
       rl.task[i].pc = "request" => rl.task[i].retries = rl.task[i].attempts

\* C30: request_with_backoff has one retry counter and one delay for both
\* kinds of failure: after k failures of a request the counter is k, and
\* every new delay is computed from the delay the previous failure left,
\* whichever kind the failures are.
C30_OneDelayOneCounter ==
    /\ []CountsEveryFailure
    /\ [][\A i \in DOMAIN rl.task :
             RetryStep(i) =>
               /\ rl'.task[i].retries = rl.task[i].retries + 1
               /\ BacksOffFromPrevious(i)]_vars

\* C30 as amended: a 429 response with a numeric Retry-After header sets the
\* delay to that number; every other failure backs off from the delay the
\* previous failure left, the header's number included.
C30_OneDelayOneCounterButRetryAfter ==
    /\ []CountsEveryFailure
    /\ [][\A i \in DOMAIN rl.task :
             RetryStep(i) =>
               /\ rl'.task[i].retries = rl.task[i].retries + 1
               /\ BacksOffFromPrevious(i) \/ TakesRetryAfter(i)]_vars

\* a request failed twice, with a 429 carrying Retry-After: 3 and then with an
\* error: the second delay is the backoff of 3 s, cut at max_delay
C30_Witness ==
    \E i \in RlTasks :
       /\ rl.task[i].pc = "request"
       /\ rl.task[i].retries = 2
       /\ rl.task[i].last.kind = "error"
       /\ rl.task[i].last.prev_delay = RetryAfterDelay(<<"3">>)
       /\ rl.args.max_delay < RetryAfterDelay(<<"3">>)
       /\ rl.task[i].delay = rl.args.max_delay

\* ------------------------------------------------------------------------ C31
\* the step in which an attempt of task i fails, whatever the failure
FailedAttempt(i) ==
    /\ i \in DOMAIN rl.task /\ i \in DOMAIN rl'.task
    /\ rl.task[i].pc = "request"
    /\ rl'.task[i] # rl.task[i]
    /\ rl'.task[i].fetched = rl.task[i].fetched

\* C31: a failed attempt of request_with_backoff, of either kind (429
\* response; error status, connection error, timeout, undecodable body), is
\* followed by a sleep and a further attempt at the same page while
\* retries < max_retries; the request fails only with the retries used up.
C31_NoFailureIsFatalAtOnce ==
    [][\A i \in DOMAIN rl.task :
          FailedAttempt(i) =>
            IF rl.task[i].retries < rl.args.max_retries
            THEN /\ rl'.task[i].pc = "request"
                 /\ rl'.task[i].current_page = rl.task[i].current_page
                 /\ rl'.task[i].retries = rl.task[i].retries + 1
                 /\ rl'.task[i].last.kind \in {"429", "error"}
                 /\ rl'.task[i].last.slept = rl'.task[i].delay
                 /\ rl'.task[i].skipped = rl.task[i].skipped
            ELSE rl'.task[i].skipped
                 = rl.task[i].skipped \cup {rl.task[i].current_page}]_vars

\* an attempt has failed with an error, not a 429, with retries left: the
\* worker slept and is at the same page again
C31_Witness ==
    \E i \in RlTasks :
       /\ rl.task[i].pc = "request"
       /\ rl.task[i].retries = 1
       /\ rl.task[i].retries < rl.args.max_retries
       /\ rl.task[i].last.kind = "error"
       /\ rl.task[i].last.slept > 0
       /\ rl.task[i].skipped = {}

\* ------------------------------------------------------------------------ C32
\* C32: load_existing_entries skips a block without a parseable tag line, with
\* a timestamp that is not "YYYY-MM-DD HH:MM:SSZ" or without a URL line, and
\* returns every other block of the file as an entry, in the order of the
\* file, with its URL in the returned URL set.
C32_OnlyMalformedBlocksSkipped ==
    fx.pc = "loaded" =>
      /\ UrlSeq(fx.parsed.entries) = UrlSeq(fx.merged)
      /\ fx.parsed.urls = UrlsOf(fx.merged)

\* ------------------------------------------------------------------------ C33
\* the step in which task i requests a page
RequestsPage(i) ==
    /\ i \in DOMAIN task'
    /\ Len(task'[i].requested) = Len(task[i].requested) + 1

\* C33: for the range [a, b] and the page size p, every page that
\* process_range requests lies between a \div p + 1 and b \div p + 1 and after
\* the page requested before it, so that no page is requested twice; the items
\* of a requested page are counted from page_start_offset = (page - 1) * p.
C33_PagesOfTheRangeInOrder ==
    [][\A i \in DOMAIN task :
         RequestsPage(i) =>
           LET page == Last(task'[i].requested)
               page_start_offset == (page - 1) * PageSize
           IN  /\ task[i].range[1] \div PageSize + 1 <= page
               /\ page <= task[i].range[2] \div PageSize + 1
               /\ task[i].requested # <<>> => Last(task[i].requested) < page
               /\ page_start_offset <= task[i].current_offset
               /\ task[i].current_offset < page_start_offset + PageSize
               /\ task'[i].pc = "item"
                  => task'[i].index = task[i].current_offset - page_start_offset]_vars

\* a worker that began inside a page and came to the last page of its range
C33_Witness ==
    \E i \in Tasks :
       /\ WorkerOver(i)
       /\ Len(task[i].requested) >= 2
       /\ task[i].range[1] % PageSize # 0
       /\ task[i].requested[1] = task[i].range[1] \div PageSize + 1
       /\ Last(task[i].requested) = task[i].range[2] \div PageSize + 1

\* ------------------------------------------------------------------------ C34
\* the step in which the request of task i succeeds and a next page follows
SucceedsAndGoesOn(i) ==
    /\ i \in DOMAIN rl.task /\ i \in DOMAIN rl'.task
    /\ rl.task[i].pc = "request"
    /\ Len(rl'.task[i].fetched) = Len(rl.task[i].fetched) + 1
    /\ rl'.task[i].pc = "request"

\* C34: when the request of a page has succeeded, the request of the next page
\* starts with the delay base_delay and the retry count 0, whatever delay and
\* retry count the page before had reached.
C34_NextPageStartsAfresh ==
    [][\A i \in DOMAIN rl.task :
         SucceedsAndGoesOn(i) =>
           /\ rl'.task[i].current_page = rl.task[i].current_page + 1
           /\ rl'.task[i].retries = 0
           /\ rl'.task[i].delay = rl.args.base_delay]_vars

\* the request of a page starts afresh after a page that was fetched on a
\* retry
C34_Witness ==
    \E i \in RlTasks :
       /\ rl.task[i].pc = "request"
       /\ rl.task[i].fetched # <<>>
       /\ Last(rl.task[i].fetched) = rl.task[i].current_page - 1
       /\ Last(rl.task[i].fetched) \in rl.task[i].retried
       /\ rl.task[i].retries = 0
       /\ rl.task[i].delay = rl.args.base_delay
       /\ rl.task[i].attempts = 0

\* ------------------------------------------------------------------------ C35
\* the tasks of the two miners that a pool thread has begun, as thread and
\* monitor
BegunBy == {[thread |-> task[i].thread, monitor |-> task[i].monitor] :
               i \in {j \in Tasks : task[j].thread # 0}}

RlBegunBy == {[thread |-> rl.task[i].thread, monitor |-> rl.task[i].monitor] :
                 i \in {j \in RlTasks : rl.task[j].thread # 0}}

\* every task has a monitor, tasks of one thread have the same monitor, tasks
\* of two threads have two monitors, and no more monitors were made than
\* threads began a task
OneMonitorPerThread(begun, tl) ==
    /\ \A x \in begun : x.monitor # 0 /\ x.monitor = tl.slot[x.thread]
    /\ \A x, y \in begun : (x.thread = y.thread) <=> (x.monitor = y.monitor)
    /\ tl.made = Cardinality({x.thread : x \in begun})

\* a task that has begun keeps its thread and its monitor
KeepsMonitor ==
    \A i \in DOMAIN task :
       (task[i].thread # 0 /\ runs' = runs)
       => /\ task'[i].thread = task[i].thread
          /\ task'[i].monitor = task[i].monitor

RlKeepsMonitor ==
    \A i \in DOMAIN rl.task :
       rl.task[i].thread # 0
       => /\ rl'.task[i].thread = rl.task[i].thread
          /\ rl'.task[i].monitor = rl.task[i].monitor

\* C35: a worker thread constructs at most one monitor, every range task it
\* runs uses that monitor from its first page to its last, and no monitor is
\* used by two threads.
C35_OneMonitorPerThread ==
    /\ [](OneMonitorPerThread(BegunBy, thread_local)
          /\ OneMonitorPerThread(RlBegunBy, rl.thread_local))
    /\ [][KeepsMonitor /\ RlKeepsMonitor]_vars

\* in a pool of two threads, one thread has run both ranges with its monitor
\* and fetched a page for each
C35_Witness ==
    \/ /\ MaxWorkers = 2
       /\ \E i, j \in Tasks :
             /\ i # j
             /\ task[i].thread = task[j].thread /\ task[i].thread # 0
             /\ task[i].monitor = task[j].monitor
             /\ task[i].requested # <<>> /\ task[j].requested # <<>>
    \/ /\ rl.args.num_threads >= 2
       /\ \E i, j \in RlTasks :
             /\ i # j
             /\ rl.task[i].thread = rl.task[j].thread /\ rl.task[i].thread # 0
             /\ rl.task[i].monitor = rl.task[j].monitor
             /\ rl.task[i].fetched # <<>> /\ rl.task[j].fetched # <<>>

\* ------------------------------------------------------------------------ C36
\* C36: no entry that merge_entries returns and no entry that
\* load_existing_entries returns has an empty URL, so that a record without a
\* URL is not among the entries of the backlog that is written.
C36_NoEntryWithoutUrl ==
    /\ fx.pc \in {"merged", "rendered", "loaded"} => "" \notin UrlsOf(fx.merged)
    /\ fx.pc = "loaded" =>
          /\ "" \notin UrlsOf(fx.parsed.entries)
          /\ "" \notin fx.parsed.urls

\* entries were merged with a record without URL among the new ones, or a
\* file was loaded that has a block with tag and timestamp but no URL
C36_Witness ==
    /\ fx.pc = "loaded"
    /\ fx.parsed.entries # <<>>
    /\ \/ "" \in UrlsOf(fx.new_entries)
       \/ \E k \in 1..Len(SplitBlocks(fx.text, <<>>)) :
             LET lines == NonBlank(SplitBlocks(fx.text, <<>>)[k])
             IN  /\ lines # <<>>
                 /\ _parse_tag_line(lines[1]).ok
                 /\ Strptime(_parse_tag_line(lines[1]).timestamp) # NoDate
                 /\ ScanFields(lines, 2, NoFields).url = ""

\* ------------------------------------------------------------------------ C37
\* the numbers that the segments of a range list are written from, in the
\* order of the segments
WrittenRanges(text) ==
    LET segments == StrSplit(text, ",", <<>>)
    IN  [k \in 1..Len(segments) |->
            (CHOOSE s \in RangeSegments : s.text = segments[k]).range]

\* ranges are ranges of segments of the text, in the order of the segments
InSegmentOrder(ranges, text) ==
    \E f \in [1..Len(ranges) -> 1..Len(WrittenRanges(text))] :
       /\ \A k \in 1..Len(ranges) : WrittenRanges(text)[f[k]] = ranges[k]
       /\ \A k \in 1..(Len(ranges) - 1) : f[k] < f[k + 1]

WellFormedRanges(ranges) ==
    \A k \in 1..Len(ranges) : 0 <= ranges[k][1] /\ ranges[k][1] <= ranges[k][2]

\* C37: every range that parse_index_ranges or parse_range returns has
\* 0 <= start <= end, and the ranges returned are in the order of their
\* segments in the range list.
C37_RangesWellFormedInOrder ==
    /\ mainpc = "await" =>
          /\ IndexRanges = [i \in 1..Len(task) |-> task[i].range]
          /\ WellFormedRanges(IndexRanges)
          /\ args.index_ranges \in RangeListTexts
             => InSegmentOrder(IndexRanges, args.index_ranges)
    /\ rl.mainpc = "await" =>
          /\ parse_range(rl.args.page_ranges)
             = [i \in 1..Len(rl.task) |-> rl.task[i].range]
          /\ WellFormedRanges(parse_range(rl.args.page_ranges))
          /\ rl.args.page_ranges \in RangeListTexts
             => InSegmentOrder(parse_range(rl.args.page_ranges), rl.args.page_ranges)

\* parse_range has returned two ranges, the later before the earlier as they
\* are written, from a list with a segment that is no range between them
C37_Witness ==
    /\ rl.mainpc = "await"
    /\ Len(StrSplit(rl.args.page_ranges, ",", <<>>)) = 3
    /\ parse_range(rl.args.page_ranges) = << <<1, 2>>, <<0, 1>> >>

====
